---------------------------- MODULE Spec2Model ----------------------------
(***************************************************************************)
(* Haplotype-constrained alignment: GaplessExtender::extend() and          *)
(* WFAExtender::connect() of src/src/gbwt_extender.cpp, over the toy graph *)
(* and the GBWT threads of src/src/unittest/gapless_extender.cpp.          *)
(*                                                                         *)
(* Offsets are 0-based as in the C++ code; a TLA+ sequence s holds the     *)
(* code's s[i] at s[i + 1].  A handle is a node id, negative for the       *)
(* reverse orientation.                                                    *)
(***************************************************************************)
EXTENDS Integers, Sequences, FiniteSets, TLC

(***************************************************************************)
(* Bounds of the model.                                                    *)
(***************************************************************************)
\* Largest number of seeds in a cluster.
MaxSeeds == 2
\* Mismatch budgets 0 .. MaxBudget are tried.
MaxBudget == 2

(***************************************************************************)
(* The graph and the haplotype index.                                      *)
(***************************************************************************)
NodeIds == 1 .. 9

NodeSeq ==
    [n \in NodeIds |->
        CASE n = 1 -> <<"G">>
          [] n = 2 -> <<"A">>
          [] n = 3 -> <<"T">>
          [] n = 4 -> <<"G", "G", "G">>
          [] n = 5 -> <<"T">>
          [] n = 6 -> <<"A">>
          [] n = 7 -> <<"C">>
          [] n = 8 -> <<"A">>
          [] n = 9 -> <<"A">>]

alt_path == <<1, 2, 4, 5, 6, 8, 9>>
short_path == <<1, 4, 5, 6, 7, 9>>
ambiguous_path == <<1, 6>>

\* build_gbwt_index(true): three threads including a duplicate, plus the
\* ambiguous one.
Threads == <<short_path, alt_path, short_path, ambiguous_path>>

Handles == NodeIds \cup {-n : n \in NodeIds}

flip(h) == -h


Complement(c) ==
    CASE c = "A" -> "T"
      [] c = "T" -> "A"
      [] c = "C" -> "G"
      [] c = "G" -> "C"
      [] OTHER -> c

\* The sequence of a handle: the node's label, reverse-complemented for the
\* reverse orientation.
get_sequence_view ==
    [h \in Handles |->
        IF h > 0 THEN NodeSeq[h]
        ELSE [i \in 1 .. Len(NodeSeq[-h]) |->
                 Complement(NodeSeq[-h][Len(NodeSeq[-h]) + 1 - i])]]

get_length == [h \in Handles |-> Len(get_sequence_view[h])]

\* The bidirectional index holds every thread in both orientations.
Haps ==
    [k \in 1 .. 2 * Len(Threads) |->
        IF k <= Len(Threads) THEN Threads[k]
        ELSE [i \in 1 .. Len(Threads[k - Len(Threads)]) |->
                 flip(Threads[k - Len(Threads)][Len(Threads[k - Len(Threads)]) + 1 - i])]]

(***************************************************************************)
(* Search states.  A bidirectional state is the set of occurrences         *)
(* <<k, i, j>> of a path in the index: Haps[k][i .. j] is the path.  Its   *)
(* size is the number of occurrences; the empty set is the empty state.    *)
(***************************************************************************)
\* Every occurrence of a non-empty path in the index.
AllOccurrences ==
    UNION {{<<k, i, j>> : i \in 1 .. Len(Haps[k]), j \in 1 .. Len(Haps[k])} :
              k \in DOMAIN Haps} \cap
    {o \in (DOMAIN Haps) \X (1 .. 7) \X (1 .. 7) : o[2] <= o[3]}

OccPath(o) == SubSeq(Haps[o[1]], o[2], o[3])

get_bd_state(h) == {o \in AllOccurrences : OccPath(o) = <<h>>}

bd_find(path) == {o \in AllOccurrences : OccPath(o) = path}

StateSize(state) == Cardinality(state)

\* The handle the state's path ends with / starts with.
forward_node(state) == LET o == CHOOSE o \in state : TRUE IN Haps[o[1]][o[3]]
first_node(state) == LET o == CHOOSE o \in state : TRUE IN Haps[o[1]][o[2]]

bdExtendForward(state, h) ==
    {<<o[1], o[2], o[3] + 1>> :
        o \in {x \in state : x[3] < Len(Haps[x[1]]) /\ Haps[x[1]][x[3] + 1] = h}}

bdExtendBackward(state, h) ==
    {<<o[1], o[2] - 1, o[3]>> :
        o \in {x \in state : x[2] > 1 /\ Haps[x[1]][x[2] - 1] = h}}

\* follow_paths(state, backward, iteratee): the non-empty one-node
\* extensions of the state, each handed to the iteratee once.
follow_paths(state, backward) ==
    IF backward
    THEN {bdExtendBackward(state, h) : h \in Handles} \ {{}}
    ELSE {bdExtendForward(state, h) : h \in Handles} \ {{}}

(***************************************************************************)
(* Reads and the read masker.                                              *)
(***************************************************************************)
\* ReadMasker: every character outside "ACGT" becomes 'X'.
Mask(c) == IF c \in {"A", "C", "G", "T"} THEN c ELSE "X"

MaskRead(s) == [i \in 1 .. Len(s) |-> Mask(s[i])]

(***************************************************************************)
(* GaplessExtension and the matching helpers.                              *)
(***************************************************************************)
Min(a, b) == IF a < b THEN a ELSE b
Max(a, b) == IF a > b THEN a ELSE b

\* std::numeric_limits<int32_t>::min(), the score of the best-match placeholder.
INT32_MIN == -2147483647 - 1
\* The placeholder's internal_score and old_score (the largest uint32_t in the
\* code) and the initial best_alignment (the largest size_t): unset values,
\* larger than every count and every index.
UNSET == 2147483647

full(e) == e.left_full /\ e.right_full
exact(e) == e.mismatch_positions = <<>>
mismatches(e) == Len(e.mismatch_positions)
empty(e) == e.read_interval[1] >= e.read_interval[2]
length(e) == e.read_interval[2] - e.read_interval[1]
interval_length(interval) == interval[2] - interval[1]

\* operator<, used by the priority queue and by the best-match comparison.
ExtLess(a, b) == a.score < b.score

\* operator==: the same read interval, search state and node offset.
ExtEqual(a, b) ==
    /\ a.read_interval = b.read_interval
    /\ a.state = b.state
    /\ a.offset = b.offset

\* A seed is (handle, read_offset - node_offset).
get_handle(seed) == seed[1]
get_read_offset(seed) == IF seed[2] < 0 THEN 0 ELSE seed[2]
get_node_offset(seed) == IF seed[2] < 0 THEN -seed[2] ELSE 0

\* set_score without the full-length bonuses.
set_score_dropping_bonus(extension, al) ==
    [extension EXCEPT !.score =
        length(extension) * al.match
        - extension.internal_score * (al.match + al.mismatch)]

set_score(extension, al) ==
    [extension EXCEPT !.score =
        length(extension) * al.match
        - extension.internal_score * (al.match + al.mismatch)
        + (IF extension.left_full THEN al.full_length_bonus ELSE 0)
        + (IF extension.right_full THEN al.full_length_bonus ELSE 0)]

\* The number of positions i < n with seq[read_from + i] # target[node_from + i].
\* Comparing 8-byte blocks first, as the code does, finds the same positions.
CountMismatches(seq, read_from, target, node_from, n) ==
    Cardinality({i \in 0 .. n - 1 : seq[read_from + i + 1] # target[node_from + i + 1]})

match_initial(match, seq, target) ==
    LET node_offset == match.offset
        left == Min(Len(seq) - match.read_interval[2], Len(target) - node_offset)
        errors == CountMismatches(seq, match.read_interval[2], target, node_offset, left)
    IN  [match EXCEPT !.read_interval[2] = @ + left,
                      !.internal_score = @ + errors,
                      !.old_score = match.internal_score + errors]

RECURSIVE match_forward_loop(_, _, _, _, _, _)
match_forward_loop(match, seq, target, mismatch_limit, node_offset, left) ==
    IF left = 0 THEN [match |-> match, node_offset |-> node_offset]
    ELSE IF seq[match.read_interval[2] + 1] # target[node_offset + 1]
    THEN IF match.internal_score + 1 >= mismatch_limit
         THEN [match |-> match, node_offset |-> node_offset]
         ELSE match_forward_loop(
                  [match EXCEPT !.internal_score = @ + 1, !.read_interval[2] = @ + 1],
                  seq, target, mismatch_limit, node_offset + 1, left - 1)
    ELSE match_forward_loop([match EXCEPT !.read_interval[2] = @ + 1],
                            seq, target, mismatch_limit, node_offset + 1, left - 1)

\* Returns the updated match and the tail offset (the characters matched).
match_forward(match, seq, target, mismatch_limit) ==
    match_forward_loop(match, seq, target, mismatch_limit, 0,
                       Min(Len(seq) - match.read_interval[2], Len(target)))

RECURSIVE match_backward_loop(_, _, _, _, _)
match_backward_loop(match, seq, target, mismatch_limit, left) ==
    IF left = 0 THEN match
    ELSE IF seq[match.read_interval[1]] # target[match.offset]
    THEN IF match.internal_score + 1 >= mismatch_limit
         THEN match
         ELSE match_backward_loop(
                  [match EXCEPT !.internal_score = @ + 1, !.read_interval[1] = @ - 1,
                                !.offset = @ - 1],
                  seq, target, mismatch_limit, left - 1)
    ELSE match_backward_loop(
             [match EXCEPT !.read_interval[1] = @ - 1, !.offset = @ - 1],
             seq, target, mismatch_limit, left - 1)

match_backward(match, seq, target, mismatch_limit) ==
    match_backward_loop(match, seq, target, mismatch_limit,
                        Min(match.read_interval[1], match.offset))

(***************************************************************************)
(* GaplessExtension::to_path(): the extension as a vg Path.                *)
(***************************************************************************)
\* An edit over bases that match the node: no sequence.
exact_match(len) == [from_length |-> len, to_length |-> len, sequence |-> <<>>]

\* The edits of one mapping up to its last mismatch below limit: a match run
\* before each mismatch, and a one-base substitution with the read base.
\* mismatch is the 0-based index of the next mismatch.
RECURSIVE to_path_mismatches(_, _, _, _, _, _)
to_path_mismatches(extension, seq, mismatch, read_offset, limit, edits) ==
    IF mismatch < Len(extension.mismatch_positions)
       /\ extension.mismatch_positions[mismatch + 1] < limit
    THEN LET at == extension.mismatch_positions[mismatch + 1]
             run == IF read_offset < at THEN <<exact_match(at - read_offset)>> ELSE <<>>
             edit == [from_length |-> 1, to_length |-> 1, sequence |-> <<seq[at + 1]>>]
         IN  to_path_mismatches(extension, seq, mismatch + 1, at + 1, limit,
                                edits \o run \o <<edit>>)
    ELSE [edits |-> edits, read_offset |-> read_offset, mismatch |-> mismatch]

\* One mapping for path[i] (0-based) and the mappings after it.
RECURSIVE to_path_mappings(_, _, _, _, _, _)
to_path_mappings(extension, seq, i, mismatch, read_offset, node_offset) ==
    IF i >= Len(extension.path) THEN <<>>
    ELSE LET handle == extension.path[i + 1]
             limit == Min(read_offset + get_length[handle] - node_offset,
                          extension.read_interval[2])
             w == to_path_mismatches(extension, seq, mismatch, read_offset, limit, <<>>)
             tail == IF w.read_offset < limit
                     THEN <<exact_match(limit - w.read_offset)>> ELSE <<>>
             mapping == [node_id |-> IF handle < 0 THEN -handle ELSE handle,
                         offset |-> node_offset,
                         is_reverse |-> handle < 0,
                         edits |-> w.edits \o tail,
                         rank |-> i + 1]
         IN  <<mapping>> \o
             to_path_mappings(extension, seq, i + 1, w.mismatch,
                              IF w.read_offset < limit THEN limit ELSE w.read_offset, 0)

\* to_path() starting every mapping at the extension's offset.
to_path_keeping_offset(extension, seq) ==
    LET p == to_path_mappings(extension, seq, 0, 0, extension.read_interval[1],
                              extension.offset)
    IN  [k \in 1 .. Len(p) |-> [p[k] EXCEPT !.offset = extension.offset]]

to_path(extension, seq) ==
    to_path_mappings(extension, seq, 0, 0, extension.read_interval[1], extension.offset)

(***************************************************************************)
(* Inputs of GaplessExtender::extend().                                    *)
(***************************************************************************)
ReadOf(str) ==
    CASE str = "" -> <<>>
      [] str = "GTACA" -> <<"G", "T", "A", "C", "A">>
      [] str = "GGAGT" -> <<"G", "G", "A", "G", "T">>
      [] str = "AGAGT" -> <<"A", "G", "A", "G", "T">>
      [] str = "GTACT" -> <<"G", "T", "A", "C", "T">>
      [] str = "AGGGT" -> <<"A", "G", "G", "G", "T">>
      [] str = "TGGx" -> <<"T", "G", "G", "x">>
      [] str = "GGG" -> <<"G", "G", "G">>
      [] str = "GGACGG" -> <<"G", "G", "A", "C", "G", "G">>
      [] str = "CGAxTCG" -> <<"C", "G", "A", "x", "T", "C", "G">>

\* The reads, before masking: prefixes of the reads of the unit tests, a read
\* with a character outside "ACGT", a read inside one node, and a read with
\* three mismatches against the reverse strand of 4, 5, 6, 7, and the empty
\* read.
Reads ==
    {ReadOf(str) : str \in {"", "GTACA", "GGAGT", "AGAGT", "GTACT", "AGGGT", "TGGx", "GGG",
                            "GGACGG", "CGAxTCG"}}

\* The seeds (handle, read_offset - node_offset) clusters are made of; every
\* handle is a node of some thread, in either orientation.
Seeds ==
    {<<4, -2>>, <<4, 0>>, <<4, 1>>, <<5, 1>>, <<8, 3>>, <<-4, 0>>, <<-5, 2>>,
     <<1, 1>>, <<-1, 5>>}

\* The seeds that are consistent with the read length and a valid node.
SeedsFor(read) ==
    {sd \in Seeds :
        /\ get_read_offset(sd) < Len(read)
        /\ get_node_offset(sd) < get_length[get_handle(sd)]}

RECURSIVE SubsetsUpTo(_, _)
SubsetsUpTo(S, n) ==
    IF n = 0 THEN {{}}
    ELSE LET smaller == SubsetsUpTo(S, n - 1)
         IN  smaller \cup {c \cup {x} : c \in smaller, x \in S}

\* The clusters: the sets of at most MaxSeeds seeds, the empty one among them;
\* with the empty read, no seed or any one seed.
ClustersFor(read) ==
    IF read = <<>> THEN SubsetsUpTo(Seeds, 1)
    ELSE SubsetsUpTo(SeedsFor(read), MaxSeeds)


(***************************************************************************)
(* Helpers on GaplessExtension: contains, overlap.                         *)
(***************************************************************************)
RECURSIVE contains_loop(_, _, _, _, _)
contains_loop(path, idx, read_offset, node_offset, seed) ==
    IF idx > Len(path) THEN FALSE
    ELSE LET len == get_length[path[idx]] - node_offset
             r == read_offset + len
             n == node_offset + len
         IN  IF /\ path[idx] = get_handle(seed)
                /\ r - get_read_offset(seed) = n - get_node_offset(seed)
             THEN TRUE
             ELSE contains_loop(path, idx + 1, r, 0, seed)

contains(extension, seed) ==
    contains_loop(extension.path, 1, extension.read_interval[1], extension.offset, seed)

Min3(a, b, c) == Min(a, Min(b, c))

RECURSIVE overlap_loop(_, _, _, _, _, _, _, _, _)
overlap_loop(this, another, result, this_pos, another_pos, this_iter, another_iter,
             this_offset, another_offset) ==
    IF ~(this_pos < this.read_interval[2] /\ another_pos < another.read_interval[2])
    THEN result
    ELSE IF /\ this_pos = another_pos
            /\ this.path[this_iter] = another.path[another_iter]
            /\ this_offset = another_offset
    THEN LET len == Min3(get_length[this.path[this_iter]] - this_offset,
                         this.read_interval[2] - this_pos,
                         another.read_interval[2] - another_pos)
         IN  overlap_loop(this, another, result + len, this_pos + len, another_pos + len,
                          this_iter + 1, another_iter + 1, 0, 0)
    ELSE IF this_pos <= another_pos
    THEN overlap_loop(this, another, result,
                      this_pos + get_length[this.path[this_iter]] - this_offset,
                      another_pos, this_iter + 1, another_iter, 0, another_offset)
    ELSE overlap_loop(this, another, result, this_pos,
                      another_pos + get_length[another.path[another_iter]] - another_offset,
                      this_iter, another_iter + 1, this_offset, 0)

\* this.overlap(graph, another)
overlap(this, another) ==
    overlap_loop(this, another, 0, this.read_interval[1], another.read_interval[1],
                 1, 1, this.offset, another.offset)

(***************************************************************************)
(* std::sort: any permutation of the vector that the comparison orders.    *)
(***************************************************************************)
IndexPermutations(n) ==
    {f \in [1 .. n -> 1 .. n] : \A i, j \in 1 .. n : i # j => f[i] # f[j]}

Sorted(vec, Less(_, _)) ==
    {[i \in 1 .. Len(vec) |-> vec[f[i]]] : f \in
        {g \in IndexPermutations(Len(vec)) :
            \A i, j \in 1 .. Len(vec) : i < j => ~Less(vec[g[j]], vec[g[i]])}}

(***************************************************************************)
(* handle_full_length                                                      *)
(***************************************************************************)
\* The order of handle_full_length turned around: worst full-length first.
full_length_order_reversed(a, b) ==
    IF full(a) /\ full(b) THEN a.internal_score > b.internal_score ELSE full(a)

\* The comparison of std::sort in handle_full_length.
full_length_order(a, b) ==
    IF full(a) /\ full(b) THEN a.internal_score < b.internal_score ELSE full(a)

\* The overlap test of handle_full_length with the comparison turned around.
too_much_overlap_reversed(a, prev, threshold) ==
    overlap(a, prev) * threshold[2] < threshold[1] * length(prev)

\* result[i].overlap(graph, result[prev]) > overlap_threshold * result[prev].length()
too_much_overlap(a, prev, threshold) ==
    overlap(a, prev) * threshold[2] > threshold[1] * length(prev)

\* The loop of handle_full_length without the test that stops it at the first
\* extension that is not full-length.
RECURSIVE keep_distinct_past_partial(_, _, _, _)
keep_distinct_past_partial(sorted, i, kept, threshold) ==
    IF i > Len(sorted) THEN kept
    ELSE IF \E prev \in 1 .. Len(kept) : too_much_overlap(sorted[i], kept[prev], threshold)
    THEN keep_distinct_past_partial(sorted, i + 1, kept, threshold)
    ELSE keep_distinct_past_partial(sorted, i + 1, Append(kept, sorted[i]), threshold)

RECURSIVE keep_distinct(_, _, _, _)
keep_distinct(sorted, i, kept, threshold) ==
    IF i > Len(sorted) THEN kept
    ELSE IF ~full(sorted[i]) THEN kept
    ELSE IF \E prev \in 1 .. Len(kept) : too_much_overlap(sorted[i], kept[prev], threshold)
    THEN keep_distinct(sorted, i + 1, kept, threshold)
    ELSE keep_distinct(sorted, i + 1, Append(kept, sorted[i]), threshold)

\* The vectors handle_full_length may leave in result.
handle_full_length(result, threshold) ==
    {keep_distinct(sorted, 1, <<>>, threshold) : sorted \in Sorted(result, full_length_order)}

(***************************************************************************)
(* remove_duplicates                                                       *)
(***************************************************************************)
\* gbwt::Node::encode(id, is_reverse)
node_encode(h) == IF h > 0 THEN 2 * h ELSE 2 * (-h) + 1

\* The least occurrence of a state: it stands for the state's BWT ranges, which
\* tell apart the states that share their end nodes.
RECURSIVE LexLess(_, _)
LexLess(a, b) ==
    IF a = <<>> \/ b = <<>> THEN FALSE
    ELSE IF Head(a) # Head(b) THEN Head(a) < Head(b)
    ELSE LexLess(Tail(a), Tail(b))

range_key(state) ==
    IF state = {} THEN <<0, 0, 0>>
    ELSE CHOOSE o \in state : \A x \in state : x = o \/ LexLess(o, x)

\* The key sort_order compares: read_interval, state.backward.node,
\* state.forward.node, the ranges, offset.
sort_key(e) ==
    <<e.read_interval[1], e.read_interval[2]>> \o
    (IF e.state = {} THEN <<0, 0>>
     ELSE <<node_encode(flip(first_node(e.state))), node_encode(forward_node(e.state))>>) \o
    range_key(e.state) \o <<e.offset>>

sort_order(a, b) == LexLess(sort_key(a), sort_key(b))

RECURSIVE unique_loop(_, _, _)
unique_loop(sorted, i, kept) ==
    IF i > Len(sorted) THEN kept
    ELSE IF empty(sorted[i]) THEN unique_loop(sorted, i + 1, kept)
    ELSE IF kept = <<>> \/ ~ExtEqual(sorted[i], kept[Len(kept)])
    THEN unique_loop(sorted, i + 1, Append(kept, sorted[i]))
    ELSE unique_loop(sorted, i + 1, kept)

\* remove_duplicates without the sort: only neighbours are compared.
remove_duplicates_unsorted(result) ==
    {unique_loop(result, 1, <<>>)}

\* The vectors remove_duplicates may leave in result.
remove_duplicates(result) ==
    {unique_loop(sorted, 1, <<>>) : sorted \in Sorted(result, sort_order)}

(***************************************************************************)
(* find_mismatches                                                         *)
(***************************************************************************)
RECURSIVE find_mismatches_node(_, _, _, _, _, _)
find_mismatches_node(seq, target, node_offset, read_offset, read_end, found) ==
    IF ~(node_offset < Len(target) /\ read_offset < read_end)
    THEN [found |-> found, read_offset |-> read_offset]
    ELSE find_mismatches_node(seq, target, node_offset + 1, read_offset + 1, read_end,
             IF target[node_offset + 1] # seq[read_offset + 1]
             THEN Append(found, read_offset) ELSE found)

RECURSIVE find_mismatches_path(_, _, _, _, _, _)
find_mismatches_path(seq, extension, idx, node_offset, read_offset, found) ==
    IF idx > Len(extension.path) THEN found
    ELSE LET r == find_mismatches_node(seq, get_sequence_view[extension.path[idx]],
                      node_offset, read_offset, extension.read_interval[2], found)
         IN  find_mismatches_path(seq, extension, idx + 1, 0, r.read_offset, r.found)

\* find_mismatches that looks at every extension but records nothing.
find_mismatches_in_none(seq, extension) == extension

\* The body of find_mismatches for one extension.
find_mismatches_in(seq, extension) ==
    IF extension.internal_score = 0 THEN extension
    ELSE [extension EXCEPT !.mismatch_positions =
             find_mismatches_path(seq, extension, 1, extension.offset,
                                  extension.read_interval[1], @)]

find_mismatches(seq, result) ==
    [i \in 1 .. Len(result) |-> find_mismatches_in(seq, result[i])]

(***************************************************************************)
(* trim_mismatches                                                         *)
(***************************************************************************)
\* in_place_subvector: the elements head .. tail - 1; an empty vector when
\* head >= tail or tail > vec.size().
in_place_subvector(vec, head, tail) ==
    IF head >= tail \/ tail > Len(vec) THEN <<>>
    ELSE SubSeq(vec, head + 1, tail)

\* The scan over the mismatches: m is the index of the next mismatch.
RECURSIVE trim_scan(_, _, _, _, _, _, _)
trim_scan(extension, al, m, current_interval, current_score, best_interval, best_score) ==
    IF m > Len(extension.mismatch_positions)
    THEN [interval |-> best_interval, score |-> best_score]
    ELSE
      LET mp == extension.mismatch_positions
          \* See if we should start a new interval after the mismatch.
          keep == current_score >= al.mismatch
          i1 == IF keep THEN <<current_interval[1], current_interval[2] + 1>>
                ELSE <<mp[m] + 1, mp[m] + 1>>
          s1 == IF keep THEN current_score - al.mismatch ELSE 0
          \* Process the following run of matches.
          last == m + 1 > Len(mp)
          run_end == IF last THEN extension.read_interval[2] ELSE mp[m + 1]
          i2 == <<i1[1], run_end>>
          s2 == s1 + (run_end - i1[2]) * al.match
                + (IF last /\ extension.right_full THEN al.full_length_bonus ELSE 0)
          better == \/ s2 > best_score
                    \/ /\ s2 > 0
                       /\ s2 = best_score
                       /\ interval_length(i2) > interval_length(best_interval)
      IN  trim_scan(extension, al, m + 1, i2, s2,
                    IF better THEN i2 ELSE best_interval,
                    IF better THEN s2 ELSE best_score)

\* The best interval and its score, as the scan of trim_mismatches finds them.
trim_best(extension, al) ==
    LET first_run == <<extension.read_interval[1], extension.mismatch_positions[1]>>
        first_score == interval_length(first_run) * al.match
                       + (IF extension.left_full THEN al.full_length_bonus ELSE 0)
    IN  trim_scan(extension, al, 1, first_run, first_score, first_run, first_score)

\* Trim the path: the index of the first node kept and the offset in it.
RECURSIVE trim_head(_, _, _, _, _)
trim_head(extension, first, head, node_offset, read_offset) ==
    IF head >= Len(extension.path)
    THEN [head |-> head, offset |-> extension.offset, read_offset |-> read_offset]
    ELSE LET node_length == get_length[extension.path[head + 1]]
             r == read_offset + node_length - node_offset
         IN  IF r > first
             THEN [head |-> head, offset |-> node_length - (r - first), read_offset |-> r]
             ELSE trim_head(extension, first, head + 1, 0, r)

RECURSIVE trim_tail(_, _, _, _)
trim_tail(path, second, tail, read_offset) ==
    IF ~(read_offset < second) THEN tail
    ELSE trim_tail(path, second, tail + 1, read_offset + get_length[path[tail + 1]])

RECURSIVE count_while_below(_, _, _)
count_while_below(positions, from, bound) ==
    IF from < Len(positions) /\ positions[from + 1] < bound
    THEN count_while_below(positions, from + 1, bound)
    ELSE from

\* trim_mismatches that never recomputes the search state.
trim_path_keeping_state(extension, head, tail) ==
    [extension EXCEPT !.path = in_place_subvector(@, head, tail)]

\* if (head > 0 || tail < path.size()): slice the path and recompute the state.
trim_path(extension, head, tail) ==
    IF head > 0 \/ tail < Len(extension.path)
    THEN [extension EXCEPT !.path = in_place_subvector(@, head, tail),
                           !.state = bd_find(in_place_subvector(extension.path, head, tail))]
    ELSE extension

\* Update alignment statistics, clearing both flags whatever end was trimmed.
trim_flags_clearing_both(extension, best_interval) ==
    [extension EXCEPT !.left_full = FALSE, !.right_full = FALSE]

\* Update alignment statistics: an end that was trimmed is no longer full.
trim_flags(extension, best_interval) ==
    [extension EXCEPT
        !.left_full = @ /\ ~(best_interval[1] > extension.read_interval[1]),
        !.right_full = @ /\ ~(best_interval[2] < extension.read_interval[2])]

\* The extension after trim_mismatches (unchanged when it returns false).
trim_mismatches(extension, al) ==
    IF exact(extension) THEN extension
    ELSE
      LET best == trim_best(extension, al)
      IN  IF best.interval = extension.read_interval THEN extension
          ELSE IF interval_length(best.interval) = 0
          THEN [extension EXCEPT !.path = <<>>,
                                 !.read_interval = best.interval,
                                 !.mismatch_positions = <<>>,
                                 !.score = 0,
                                 !.left_full = FALSE,
                                 !.right_full = FALSE]
          ELSE
            LET h == trim_head(extension, best.interval[1], 0, extension.offset,
                               extension.read_interval[1])
                tail == trim_tail(extension.path, best.interval[2], h.head + 1, h.read_offset)
                e1 == [trim_flags(extension, best.interval) EXCEPT
                          !.read_interval = best.interval,
                          !.score = best.score,
                          !.offset = h.offset]
                e2 == trim_path(e1, h.head, tail)
                mhead == count_while_below(e2.mismatch_positions, 0, best.interval[1])
                mtail == count_while_below(e2.mismatch_positions, mhead, best.interval[2])
            IN  [e2 EXCEPT !.mismatch_positions = in_place_subvector(@, mhead, mtail)]

\* The return value of trim_mismatches.
trimmed(extension, al) == trim_mismatches(extension, al) # extension

(***************************************************************************)
(* WFAAlignment.                                                           *)
(***************************************************************************)
\* A default-constructed alignment: no path, no edits.
EmptyAlignment ==
    [path |-> <<>>, edits |-> <<>>, node_offset |-> 0, seq_offset |-> 0,
     length |-> 0, score |-> 0]

alignment_empty(alignment) == alignment.path = <<>>

\* WFAAlignment::append: edits are <<type, length>> runs.
append(alignment, edit, len) ==
    IF len = 0 THEN alignment
    ELSE IF alignment.edits = <<>> \/ alignment.edits[Len(alignment.edits)][1] # edit
    THEN [alignment EXCEPT !.edits = Append(@, <<edit, len>>)]
    ELSE [alignment EXCEPT !.edits[Len(alignment.edits)] = <<edit, @[2] + len>>]

\* The edits the constructor makes for the mismatches from index k (0-based)
\* on: a mismatch joins the mismatch edit before it when the cursor is on it,
\* else a match over the bases from the cursor and a one-base mismatch follow;
\* the cursor is then set to the mismatch.
RECURSIVE mismatch_edits(_, _, _, _)
mismatch_edits(mismatch_positions, k, edits, edits_made_up_to) ==
    IF k >= Len(mismatch_positions)
    THEN [edits |-> edits, edits_made_up_to |-> edits_made_up_to]
    ELSE LET mismatch_at == mismatch_positions[k + 1]
             made ==
                 IF /\ edits # <<>>
                    /\ edits_made_up_to = mismatch_at
                    /\ edits[Len(edits)][1] = "mismatch"
                 THEN [edits EXCEPT ![Len(edits)] = <<@[1], @[2] + 1>>]
                 ELSE (IF edits_made_up_to < mismatch_at
                       THEN Append(edits, <<"match", mismatch_at - edits_made_up_to>>)
                       ELSE edits) \o <<<<"mismatch", 1>>>>
         IN  mismatch_edits(mismatch_positions, k + 1, made, mismatch_at)

\* WFAAlignment::WFAAlignment(const GaplessExtension&): the copied fields, the
\* edits for the mismatches, and a trailing match over the bases from the
\* cursor to the end of the interval.
WFAAlignment(extension) ==
    LET seq_offset == extension.read_interval[1]
        made == mismatch_edits(extension.mismatch_positions, 0, <<>>, seq_offset)
    IN  [path |-> extension.path,
         edits |-> IF made.edits_made_up_to < seq_offset + length(extension)
                   THEN Append(made.edits,
                               <<"match", (seq_offset + length(extension))
                                              - made.edits_made_up_to>>)
                   ELSE made.edits,
         node_offset |-> extension.offset,
         seq_offset |-> seq_offset,
         length |-> length(extension),
         score |-> extension.score]

RECURSIVE graph_bases(_)
graph_bases(edits) ==
    IF edits = <<>> THEN 0
    ELSE (IF Head(edits)[1] # "insertion" THEN Head(edits)[2] ELSE 0)
            + graph_bases(Tail(edits))

RECURSIVE path_length(_)
path_length(path) ==
    IF path = <<>> THEN 0 ELSE get_length[Head(path)] + path_length(Tail(path))

\* WFAAlignment::final_offset: the node offset after the last aligned base.
final_offset(alignment) ==
    alignment.node_offset + graph_bases(alignment.edits)
        - path_length(SubSeq(alignment.path, 1, Len(alignment.path) - 1))

(***************************************************************************)
(* Positions, points and the nodes of the tree of search states.           *)
(***************************************************************************)
\* pos_t: node id, orientation and offset; id 0 is no position.
NoPos == [id |-> 0, is_rev |-> FALSE, offset |-> 0]
no_pos(pos) == pos.id = 0
pos_handle(pos) == IF pos.is_rev THEN -pos.id ELSE pos.id

\* MatchPos: path is a stack of tree offsets, the top first.
EmptyPos == [seq_offset |-> 0, node_offset |-> 0, path |-> <<>>]
pos_empty(pos) == pos.path = <<>>
at_last_node(pos) == Len(pos.path) = 1
pos_node(pos) == Head(pos.path)
pop(pos) == [pos EXCEPT !.path = Tail(@)]

\* MatchPos::operator<
PosLess(a, b) ==
    IF pos_empty(a) THEN TRUE
    ELSE IF pos_empty(b) THEN FALSE
    ELSE a.seq_offset < b.seq_offset

\* MatchPos::max
PosMax(a, b) ==
    IF pos_empty(a) THEN b
    ELSE IF pos_empty(b) THEN a
    ELSE IF a.seq_offset > b.seq_offset THEN a ELSE b

\* Body applied to the value, the value being computed once: the state a loop
\* of the code carries from one iteration to the next.
Bind(value, Body(_)) == CHOOSE r \in {Body(x) : x \in {value}} : TRUE

\* The quotient of C++ integer division, rounded towards zero.
TruncDiv(a, b) == IF a >= 0 THEN a \div b ELSE -((-a) \div b)

\* WFAPoint
target_offset(point) == point.seq_offset - point.diagonal

alignment_score(point, al) ==
    TruncDiv(al.match * (point.seq_offset + target_offset(point)) - point.score, 2)

point_pos(point, path) ==
    [seq_offset |-> point.seq_offset, node_offset |-> point.node_offset, path |-> path]

\* WFAPoint::operator<
PointLess(a, b) ==
    a.score < b.score \/ (a.score = b.score /\ a.diagonal < b.diagonal)

\* std::numeric_limits<int32_t>::max(), the score of no candidate.
INT32_MAX == 2147483647

\* The types of the wavefronts of a node.
MATCHES == 0
INSERTIONS == 1
DELETIONS == 2

\* WFANode(state, parent)
WFANode(state, parent_node) ==
    [state |-> state, parent |-> parent_node, children |-> <<>>, dead_end |-> FALSE,
     wavefronts |-> <<<<>>, <<>>, <<>>>>]

is_leaf(node) == node.children = <<>> \/ node.dead_end
expanded(node) == node.children # <<>> \/ node.dead_end
same_node(node, pos) == ~no_pos(pos) /\ forward_node(node.state) = pos_handle(pos)
wfa_node_length(node) == get_length[forward_node(node.state)]

\* std::lower_bound: the offset of the first point that is not before the key.
lower_bound(points, key) ==
    LET later == {i \in 1 .. Len(points) : ~PointLess(points[i], key)}
    IN  IF later = {} THEN Len(points) + 1
        ELSE CHOOSE i \in later : \A j \in later : i <= j

\* WFANode::find_pos
node_find_pos(node, type, score, diagonal, path) ==
    LET key == [score |-> score, diagonal |-> diagonal, seq_offset |-> 0, node_offset |-> 0]
        points == node.wavefronts[type + 1]
        iter == lower_bound(points, key)
    IN  IF iter > Len(points) \/ PointLess(key, points[iter]) THEN EmptyPos
        ELSE point_pos(points[iter], path)

\* The point put at the end of the wavefront, whatever it holds.
node_update_appending(node, type, score, diagonal, seq_offset, node_offset) ==
    [node EXCEPT !.wavefronts[type + 1] =
        Append(@, [score |-> score, diagonal |-> diagonal,
                   seq_offset |-> seq_offset, node_offset |-> node_offset])]

\* WFANode::update
node_update(node, type, score, diagonal, seq_offset, node_offset) ==
    LET key == [score |-> score, diagonal |-> diagonal,
                seq_offset |-> seq_offset, node_offset |-> node_offset]
        points == node.wavefronts[type + 1]
        iter == lower_bound(points, key)
    IN  IF iter > Len(points) \/ PointLess(key, points[iter])
        THEN [node EXCEPT !.wavefronts[type + 1] =
                 SubSeq(points, 1, iter - 1) \o <<key>> \o SubSeq(points, iter, Len(points))]
        ELSE [node EXCEPT !.wavefronts[type + 1][iter] = key]

\* WFANode::match_forward: the position at the first non-match.
RECURSIVE node_match_forward(_, _, _)
node_match_forward(seq, node, pos) ==
    LET node_seq == get_sequence_view[forward_node(node.state)]
    IN  IF /\ pos.seq_offset < Len(seq)
           /\ pos.node_offset < Len(node_seq)
           /\ seq[pos.seq_offset + 1] = node_seq[pos.node_offset + 1]
        THEN node_match_forward(seq, node,
                 [pos EXCEPT !.seq_offset = @ + 1, !.node_offset = @ + 1])
        ELSE pos

(***************************************************************************)
(* WFATree.                                                                *)
(***************************************************************************)
\* The upper bound for the score: 3% mismatches, 5% gaps, 10% gap length.
score_bound_for(seq, mismatch_penalty, gap_open_penalty, gap_extend_penalty) ==
    LET max_mismatches == (3 * Len(seq)) \div 100 + 1
        max_gaps == (5 * Len(seq)) \div 100 + 1
        max_gap_length == Len(seq) \div 10 + 1
    IN  max_mismatches * mismatch_penalty + max_gaps * gap_open_penalty
            + max_gap_length * gap_extend_penalty

\* WFATree(graph, sequence, root, aligner)
WFATree(seq, root, al) ==
    [sequence |-> seq,
     nodes |-> <<WFANode(root, 0)>>,
     candidate_point |-> [score |-> INT32_MAX, diagonal |-> 0, seq_offset |-> 0,
                          node_offset |-> 0],
     candidate_node |-> 0,
     mismatch |-> 2 * (al.match + al.mismatch),
     gap_open |-> 2 * al.gap_open,
     gap_extend |-> 2 * al.gap_extension + al.match,
     score_bound |-> score_bound_for(seq, 2 * (al.match + al.mismatch), 2 * al.gap_open,
                                     2 * al.gap_extension + al.match),
     diagonals |-> <<<<0, 0>>>>,
     max_diagonals |-> <<0, 0>>]

size(t) == Len(t.nodes)
is_root(node) == node = 0
parent(t, node) == t.nodes[node + 1].parent
gap_penalty(t, len) == t.gap_open + len * t.gap_extend

tree_update(t, node, type, score, diagonal, seq_offset, node_offset) ==
    [t EXCEPT !.nodes[node + 1] =
        node_update(@, type, score, diagonal, seq_offset, node_offset)]

at_dead_end(t, pos) ==
    /\ t.nodes[pos_node(pos) + 1].dead_end
    /\ pos.node_offset >= wfa_node_length(t.nodes[pos_node(pos) + 1])

RECURSIVE find_pos_loop(_, _, _, _, _, _, _, _)
find_pos_loop(t, type, node, score, diagonal, extendable_seq, extendable_graph, path) ==
    LET pushed == <<node>> \o path
        pos == node_find_pos(t.nodes[node + 1], type, score, diagonal, pushed)
    IN  IF ~pos_empty(pos)
        THEN IF extendable_seq /\ pos.seq_offset >= Len(t.sequence) THEN EmptyPos
             ELSE IF extendable_graph /\ at_dead_end(t, pos) THEN EmptyPos
             ELSE pos
        ELSE IF is_root(node) THEN EmptyPos
        ELSE find_pos_loop(t, type, parent(t, node), score, diagonal,
                           extendable_seq, extendable_graph, pushed)

\* WFATree::find_pos: the furthest position for (score, diagonal) at the node
\* or its ancestors.
find_pos(t, type, node, score, diagonal, extendable_seq, extendable_graph) ==
    IF score < 0 THEN EmptyPos
    ELSE find_pos_loop(t, type, node, score, diagonal, extendable_seq, extendable_graph, <<>>)

ins_predecessor(t, node, score, diagonal) ==
    LET open == find_pos(t, MATCHES, node, score - t.gap_open - t.gap_extend,
                         diagonal - 1, TRUE, FALSE)
        extend == find_pos(t, INSERTIONS, node, score - t.gap_extend, diagonal - 1,
                           TRUE, FALSE)
    IN  IF PosLess(open, extend) THEN [pos |-> extend, edit |-> "insertion"]
        ELSE [pos |-> open, edit |-> "match"]

del_predecessor(t, node, score, diagonal) ==
    LET open == find_pos(t, MATCHES, node, score - t.gap_open - t.gap_extend,
                         diagonal + 1, FALSE, TRUE)
        extend == find_pos(t, DELETIONS, node, score - t.gap_extend, diagonal + 1,
                           FALSE, TRUE)
    IN  IF PosLess(open, extend) THEN [pos |-> extend, edit |-> "deletion"]
        ELSE [pos |-> open, edit |-> "match"]

\* A position one base further on the sequence and on the node.
after_mismatch(pos) ==
    IF pos_empty(pos) THEN pos
    ELSE [pos EXCEPT !.seq_offset = @ + 1, !.node_offset = @ + 1]

match_predecessor(t, node, score, diagonal) ==
    LET ins == find_pos(t, INSERTIONS, node, score, diagonal, FALSE, FALSE)
        del == find_pos(t, DELETIONS, node, score, diagonal, FALSE, FALSE)
        subst == after_mismatch(find_pos(t, MATCHES, node, score - t.mismatch, diagonal,
                                         FALSE, FALSE))
    IN  IF PosLess(ins, del)
        THEN IF PosLess(del, subst) THEN [pos |-> subst, edit |-> "mismatch"]
             ELSE [pos |-> del, edit |-> "deletion"]
        ELSE IF PosLess(ins, subst) THEN [pos |-> subst, edit |-> "mismatch"]
             ELSE [pos |-> ins, edit |-> "insertion"]

\* WFATree::predecessor_offset: <<node, offset>> one base back.
predecessor_offset(t, node, offset) ==
    IF offset > 0 THEN <<node, offset - 1>>
    ELSE <<parent(t, node), wfa_node_length(t.nodes[parent(t, node) + 1]) - 1>>

\* The match points of the tree in the order trim() visits them.
RECURSIVE match_points(_, _)
match_points(t, node) ==
    IF node >= size(t) THEN <<>>
    ELSE [i \in 1 .. Len(t.nodes[node + 1].wavefronts[MATCHES + 1]) |->
             <<node, t.nodes[node + 1].wavefronts[MATCHES + 1][i]>>]
         \o match_points(t, node + 1)

RECURSIVE trim_loop(_, _, _, _)
trim_loop(t, al, points, best_score) ==
    IF points = <<>> THEN t
    ELSE IF alignment_score(Head(points)[2], al) > best_score
    THEN Bind([t EXCEPT !.candidate_point = Head(points)[2],
                        !.candidate_node = Head(points)[1]],
              LAMBDA u : trim_loop(u, al, Tail(points),
                                   alignment_score(Head(points)[2], al)))
    ELSE trim_loop(t, al, Tail(points), best_score)

\* WFATree::trim: the candidate becomes the partial alignment with the highest
\* alignment score.
wfa_trim(t, al) ==
    trim_loop([t EXCEPT !.candidate_point = [score |-> 0, diagonal |-> 0, seq_offset |-> 0,
                                             node_offset |-> 0],
                        !.candidate_node = 0],
              al, match_points(t, 0), 0)

\* The successor states follow_paths hands to the callback, in node order.
RECURSIVE in_node_order(_)
in_node_order(states) ==
    IF states = {} THEN <<>>
    ELSE LET first == CHOOSE s \in states :
                 \A o \in states : node_encode(forward_node(s)) <= node_encode(forward_node(o))
         IN  <<first>> \o in_node_order(states \ {first})

RECURSIVE update_children(_, _, _, _, _, _)
update_children(t, children, type, score, diagonal, seq_offset) ==
    IF children = <<>> THEN t
    ELSE Bind(tree_update(t, Head(children), type, score, diagonal, seq_offset, 0),
              LAMBDA u : update_children(u, Tail(children), type, score, diagonal,
                                         seq_offset))

\* The children of the node are added to the tree, or the node is a dead end.
expand(t, node) ==
    LET successors == in_node_order(follow_paths(t.nodes[node + 1].state, FALSE))
    IN  IF successors = <<>> THEN [t EXCEPT !.nodes[node + 1].dead_end = TRUE]
        ELSE [t EXCEPT
                !.nodes = [t.nodes EXCEPT ![node + 1].children =
                              [i \in 1 .. Len(successors) |-> size(t) + i - 1]]
                          \o [i \in 1 .. Len(successors) |-> WFANode(successors[i], node)]]

\* The children computed anew each time a position reaches the end of the node.
propagate_expanding_again(t, pos, score, diagonal, type) ==
    IF \/ ~at_last_node(pos)
       \/ pos.node_offset < wfa_node_length(t.nodes[pos_node(pos) + 1])
    THEN [tree |-> t, propagated |-> FALSE]
    ELSE Bind(expand(t, pos_node(pos)),
              LAMBDA grown :
                  [tree |-> update_children(grown, grown.nodes[pos_node(pos) + 1].children,
                                            type, score, diagonal, pos.seq_offset),
                   propagated |-> grown.nodes[pos_node(pos) + 1].children # <<>>])

\* WFATree::propagate: the tree afterwards, and whether the position went to
\* the children.
propagate(t, pos, score, diagonal, type) ==
    IF \/ ~at_last_node(pos)
       \/ pos.node_offset < wfa_node_length(t.nodes[pos_node(pos) + 1])
    THEN [tree |-> t, propagated |-> FALSE]
    ELSE Bind(IF expanded(t.nodes[pos_node(pos) + 1]) THEN t ELSE expand(t, pos_node(pos)),
              LAMBDA grown :
                  [tree |-> update_children(grown, grown.nodes[pos_node(pos) + 1].children,
                                            type, score, diagonal, pos.seq_offset),
                   propagated |-> grown.nodes[pos_node(pos) + 1].children # <<>>])

RECURSIVE leaves_from(_, _)
leaves_from(t, node) ==
    IF node >= size(t) THEN <<>>
    ELSE (IF is_leaf(t.nodes[node + 1]) THEN <<node>> ELSE <<>>) \o leaves_from(t, node + 1)

get_leaves(t) == leaves_from(t, 0)

\* The candidate is replaced when the new score is better.
new_candidate(t, new_score, diagonal, seq_offset, node_offset, node) ==
    IF new_score < t.candidate_point.score
    THEN [t EXCEPT !.candidate_point = [score |-> new_score, diagonal |-> diagonal,
                                        seq_offset |-> seq_offset,
                                        node_offset |-> node_offset],
                   !.candidate_node = node]
    ELSE t

\* WFATree::extend_over: wf_extend() on one diagonal from the given leaves.
\* extend_from is the loop that follows the position from node to node.
RECURSIVE extend_over(_, _, _, _, _)
RECURSIVE extend_from(_, _, _, _, _, _)
extend_from(t, score, diagonal, to, leaf, from_pos) ==
    LET node == t.nodes[pos_node(from_pos) + 1]
        may_reach_to == same_node(node, to) /\ from_pos.node_offset <= to.offset
        pos == node_match_forward(t.sequence, node, from_pos)
        reached == \/ may_reach_to /\ pos.node_offset > to.offset
                   \/ no_pos(to) /\ pos.seq_offset >= Len(t.sequence)
        overshoot == IF no_pos(to) THEN 0 ELSE pos.node_offset - to.offset - 1
        gap_length == (Len(t.sequence) - pos.seq_offset) + overshoot
        new_score == IF gap_length > 0 THEN score + gap_penalty(t, gap_length) ELSE score
        found == IF reached
                 THEN new_candidate(t, new_score, diagonal, pos.seq_offset - overshoot,
                                    to.offset + 1, pos_node(pos))
                 ELSE t
    IN  Bind(tree_update(found, pos_node(pos), MATCHES, score, diagonal,
                         pos.seq_offset, pos.node_offset),
             LAMBDA updated :
                 IF pos.node_offset < wfa_node_length(node) THEN updated
                 ELSE IF at_last_node(pos)
                 THEN Bind(propagate(updated, pos, score, diagonal, MATCHES),
                           LAMBDA p :
                               IF p.propagated
                               THEN extend_over(p.tree, score, diagonal, to,
                                                p.tree.nodes[leaf + 1].children)
                               ELSE p.tree)
                 ELSE extend_from(updated, score, diagonal, to, leaf,
                                  [pop(pos) EXCEPT !.node_offset = 0]))

extend_over(t, score, diagonal, to, leaves) ==
    IF leaves = <<>> THEN t
    ELSE LET pos == find_pos(t, MATCHES, Head(leaves), score, diagonal, FALSE, FALSE)
         IN  IF pos_empty(pos) THEN extend_over(t, score, diagonal, to, Tail(leaves))
             ELSE Bind(extend_from(t, score, diagonal, to, Head(leaves), pos),
                       LAMBDA u : extend_over(u, score, diagonal, to, Tail(leaves)))

RECURSIVE extend_diagonals(_, _, _, _)
extend_diagonals(t, score, to, diagonal) ==
    IF diagonal > t.max_diagonals[2] THEN t
    ELSE Bind(extend_over(t, score, diagonal, to, get_leaves(t)),
              LAMBDA u : extend_diagonals(u, score, to, diagonal + 1))

\* WFATree::extend: wf_extend() in the paper.
wfa_extend(t, score, to) == extend_diagonals(t, score, to, t.max_diagonals[1])

update_range(t, range, score) ==
    IF score > 0
    THEN <<Min(range[1], t.diagonals[score + 1][1]), Max(range[2], t.diagonals[score + 1][2])>>
    ELSE range

\* std::vector::resize(n, value)
resize(vec, n, value) ==
    [i \in 1 .. n |-> IF i <= Len(vec) THEN vec[i] ELSE value]

\* The range of the earlier scores as it is, not widened.
diagonal_range_not_widened(t, score) ==
    LET substitution == update_range(t, <<0, 0>>, score - t.mismatch)
        new_gap == update_range(t, substitution, score - t.gap_open - t.gap_extend)
    IN  update_range(t, new_gap, score - t.gap_extend)

\* The diagonal range for the score, before the tree records it.
diagonal_range(t, score) ==
    LET substitution == update_range(t, <<0, 0>>, score - t.mismatch)
        new_gap == update_range(t, substitution, score - t.gap_open - t.gap_extend)
        longer_gap == update_range(t, new_gap, score - t.gap_extend)
    IN  <<longer_gap[1] - 1, longer_gap[2] + 1>>

\* WFATree::get_diagonals: the tree with diagonals and max_diagonals updated.
get_diagonals(t, score) ==
    LET range == diagonal_range(t, score)
    IN  [t EXCEPT !.max_diagonals = <<Min(@[1], range[1]), Max(@[2], range[2])>>,
                  !.diagonals = [resize(@, score + 1, <<0, 0>>) EXCEPT ![score + 1] = range]]

\* next(): the furthest insertion for (score, diagonal) is stored.
next_insertion(t, score, diagonal, leaf) ==
    LET predecessor == ins_predecessor(t, leaf, score, diagonal).pos
        ins == IF pos_empty(predecessor) THEN predecessor
               ELSE [predecessor EXCEPT !.seq_offset = @ + 1]
    IN  [tree |-> IF pos_empty(ins) THEN t
                  ELSE tree_update(t, pos_node(ins), INSERTIONS, score, diagonal,
                                   ins.seq_offset, ins.node_offset),
         pos |-> ins]

\* next(): the furthest deletion is stored and propagated.
next_deletion(t, score, diagonal, leaf) ==
    LET predecessor == del_predecessor(t, leaf, score, diagonal).pos
        del == IF pos_empty(predecessor) THEN predecessor
               ELSE [predecessor EXCEPT !.node_offset = @ + 1]
    IN  [tree |-> IF pos_empty(del) THEN t
                  ELSE propagate(tree_update(t, pos_node(del), DELETIONS, score, diagonal,
                                             del.seq_offset, del.node_offset),
                                 del, score, diagonal, DELETIONS).tree,
         pos |-> del]

\* next(): the furthest of the mismatch, the insertion and the deletion is
\* stored as a match and propagated; just past the end position it is a candidate.
next_match(t, score, diagonal, to, leaf, ins, del) ==
    LET subst == PosMax(PosMax(after_mismatch(find_pos(t, MATCHES, leaf, score - t.mismatch,
                                                       diagonal, TRUE, TRUE)),
                               ins),
                        del)
        gap_length == Len(t.sequence) - subst.seq_offset
        new_score == IF gap_length > 0 THEN score + gap_penalty(t, gap_length) ELSE score
        found == IF /\ same_node(t.nodes[pos_node(subst) + 1], to)
                    /\ subst.node_offset = to.offset + 1
                 THEN new_candidate(t, new_score, diagonal, subst.seq_offset,
                                    subst.node_offset, pos_node(subst))
                 ELSE t
    IN  IF pos_empty(subst) THEN t
        ELSE propagate(tree_update(found, pos_node(subst), MATCHES, score, diagonal,
                                   subst.seq_offset, subst.node_offset),
                       subst, score, diagonal, MATCHES).tree

\* The body of the loop of next() for one leaf.
next_leaf(t, score, diagonal, to, leaf) ==
    Bind(next_insertion(t, score, diagonal, leaf),
         LAMBDA inserted :
             Bind(next_deletion(inserted.tree, score, diagonal, leaf),
                  LAMBDA deleted :
                      next_match(deleted.tree, score, diagonal, to, leaf,
                                 inserted.pos, deleted.pos)))

RECURSIVE next_leaves(_, _, _, _, _)
next_leaves(t, score, diagonal, to, leaves) ==
    IF leaves = <<>> THEN t
    ELSE Bind(next_leaf(t, score, diagonal, to, Head(leaves)),
              LAMBDA u : next_leaves(u, score, diagonal, to, Tail(leaves)))

RECURSIVE next_diagonals(_, _, _, _, _)
next_diagonals(t, score, to, diagonal, last) ==
    IF diagonal > last THEN t
    ELSE Bind(next_leaves(t, score, diagonal, to, get_leaves(t)),
              LAMBDA u : next_diagonals(u, score, to, diagonal + 1, last))

\* WFATree::next: wf_next() in the paper.
wfa_next(t, score, to) ==
    Bind(get_diagonals(t, score),
         LAMBDA u : next_diagonals(u, score, to, u.diagonals[score + 1][1],
                                   u.diagonals[score + 1][2]))

(***************************************************************************)
(* WFAExtender::connect: the alignment built from the candidate.           *)
(***************************************************************************)
\* The handles from the root to the node.
RECURSIVE path_to(_, _)
path_to(t, node) ==
    IF is_root(node) THEN <<forward_node(t.nodes[node + 1].state)>>
    ELSE Append(path_to(t, parent(t, node)), forward_node(t.nodes[node + 1].state))

\* Backtrace the edits; they are appended from the last to the first.
RECURSIVE backtrace(_, _, _, _, _)
backtrace(t, alignment, point, node, edit) ==
    IF ~(point.seq_offset > 0 \/ point.diagonal # 0) THEN alignment
    ELSE CASE edit = "match" ->
                LET predecessor == match_predecessor(t, node, point.score, point.diagonal)
                IN  backtrace(t,
                        append(alignment, "match",
                               point.seq_offset - predecessor.pos.seq_offset),
                        [point EXCEPT !.seq_offset = predecessor.pos.seq_offset,
                                      !.node_offset = predecessor.pos.node_offset],
                        pos_node(predecessor.pos), predecessor.edit)
           [] edit = "mismatch" ->
                LET before == predecessor_offset(t, node, point.node_offset)
                IN  backtrace(t, append(alignment, "mismatch", 1),
                        [point EXCEPT !.seq_offset = @ - 1, !.node_offset = before[2],
                                      !.score = @ - t.mismatch],
                        before[1], "match")
           [] edit = "insertion" ->
                LET predecessor == ins_predecessor(t, node, point.score, point.diagonal)
                IN  backtrace(t, append(alignment, "insertion", 1),
                        [point EXCEPT !.seq_offset = @ - 1,
                                      !.score = IF predecessor.edit = "insertion"
                                                THEN @ - t.gap_extend
                                                ELSE @ - (t.gap_open + t.gap_extend),
                                      !.diagonal = @ - 1],
                        node, predecessor.edit)
           [] edit = "deletion" ->
                LET predecessor == del_predecessor(t, node, point.score, point.diagonal)
                    before == predecessor_offset(t, node, point.node_offset)
                IN  backtrace(t, append(alignment, "deletion", 1),
                        [point EXCEPT !.node_offset = before[2],
                                      !.score = IF predecessor.edit = "deletion"
                                                THEN @ - t.gap_extend
                                                ELSE @ - (t.gap_open + t.gap_extend),
                                      !.diagonal = @ + 1],
                        before[1], predecessor.edit)

reversed(vec) == [i \in 1 .. Len(vec) |-> vec[Len(vec) + 1 - i]]

\* The alignment connect() returns for the candidate of the tree.
build_alignment(t, from, al, full_length) ==
    LET start == [path |-> path_to(t, t.candidate_node), edits |-> <<>>,
                  node_offset |-> from.offset, seq_offset |-> 0,
                  length |-> t.candidate_point.seq_offset,
                  score |-> alignment_score(t.candidate_point, al)]
        final_insertion ==
            IF full_length /\ t.candidate_point.seq_offset < Len(t.sequence)
            THEN Len(t.sequence) - t.candidate_point.seq_offset
            ELSE 0
        point == IF final_insertion > 0
                 THEN [t.candidate_point EXCEPT !.score = @ - gap_penalty(t, final_insertion)]
                 ELSE t.candidate_point
        traced == backtrace(t, append(start, "insertion", final_insertion), point,
                            t.candidate_node, "match")
        forward == [traced EXCEPT !.edits = reversed(@)]
    IN  IF final_offset(forward) = 0
        THEN [forward EXCEPT !.path = SubSeq(@, 1, Len(@) - 1)]
        ELSE forward


(***************************************************************************)
(* GaplessExtender::extend(): the state of one call.                       *)
(***************************************************************************)
VARIABLES
    sequence,           \* the read, masked once the call is under way
    aligner,            \* the scoring model
    call,               \* the entry point, and the pointers graph, aligner and cache
    max_mismatches,     \* the mismatch budget
    overlap_threshold,  \* <<numerator, denominator>>
    cluster,            \* the seeds not yet visited
    extensions,         \* the priority queue of the current seed
    best_match,         \* the best maximal extension of the current seed
    result,             \* the vector of extensions
    best_alignment,     \* index of the best full-length alignment in result
    best_matches,       \* history: result as it was before it was post-processed
    trim_log,           \* history: each extension before and after trim_mismatches
    connect_from,       \* connect(): the position the alignment starts from
    connect_to,         \* connect(): the position it ends at, or no position
    tree,               \* connect(): the WFATree
    loop_score,         \* connect(): the local variable score
    connect_result,     \* connect(): the alignment returned
    connect_pc,         \* "suffix", "prefix", and in connect(): "start", "extend",
                        \* "next", "finish", "done"; "returned" from prefix()
    pc                  \* "start", "seeds", "queue", "full_length", "partial", "invalid"

\* What connect() leaves alone, and what extend() leaves alone.
extend_vars == <<max_mismatches, overlap_threshold, cluster, extensions, best_match,
                 result, best_alignment, best_matches, trim_log, pc>>

connect_vars == <<connect_from, connect_to, tree, loop_score, connect_result, connect_pc>>

vars == <<sequence, aligner, call, extend_vars, connect_vars>>

NoMatch ==
    [path |-> <<>>, offset |-> 0, state |-> {}, read_interval |-> <<0, 0>>,
     mismatch_positions |-> <<>>, score |-> INT32_MIN,
     left_full |-> FALSE, right_full |-> FALSE,
     left_maximal |-> FALSE, right_maximal |-> FALSE,
     internal_score |-> UNSET, old_score |-> UNSET]

\* The scoring model and the overlap threshold of a call.
Configurations ==
    { <<[match |-> 1, mismatch |-> 4, gap_open |-> 6, gap_extension |-> 1,
         full_length_bonus |-> 5], <<4, 5>>>>,
      <<[match |-> 1, mismatch |-> 1, gap_open |-> 1, gap_extension |-> 1,
         full_length_bonus |-> 0], <<1, 2>>>>,
      <<[match |-> 1, mismatch |-> 2, gap_open |-> 2, gap_extension |-> 1,
         full_length_bonus |-> 2], <<4, 5>>>> }

\* The extender's graph and aligner may be unset and the caller may hand in a
\* cache; these are tried with the clusters of at most one seed.
Init ==
    \E read \in Reads, conf \in Configurations, budget \in 0 .. MaxBudget :
    \E seeds \in ClustersFor(read) :
    \E pointers \in [graph : {"nullptr", "set"}, aligner : {"nullptr", "set"},
                     cache : {"nullptr", "provided"}] :
        /\ Cardinality(seeds) > 1 =>
              pointers = [graph |-> "set", aligner |-> "set", cache |-> "nullptr"]
        /\ call = [entry |-> "extend", graph |-> pointers.graph,
                   aligner |-> pointers.aligner, cache |-> pointers.cache]
        /\ sequence = read
        /\ aligner = conf[1]
        /\ overlap_threshold = conf[2]
        /\ max_mismatches = budget
        /\ cluster = seeds
        /\ extensions = {}
        /\ best_match = NoMatch
        /\ result = <<>>
        /\ best_alignment = UNSET
        /\ best_matches = <<>>
        /\ trim_log = <<>>
        /\ pc = "start"
        /\ connect_from = NoPos
        /\ connect_to = NoPos
        /\ tree = <<>>
        /\ loop_score = 0
        /\ connect_result = EmptyAlignment
        /\ connect_pc = "idle"

\* The skip test without the test for exactness.
seed_is_covered_by_inexact(seed) ==
    /\ best_alignment < Len(result)
    /\ contains(result[best_alignment + 1], seed)

\* The seed is contained in an exact full-length alignment found before.
seed_is_covered(seed) ==
    /\ best_alignment < Len(result)
    /\ result[best_alignment + 1].internal_score = 0
    /\ contains(result[best_alignment + 1], seed)

\* The initial node matched and scored, as it is pushed on the queue.
initial_match(seed) ==
    LET read_offset == get_read_offset(seed)
        node_offset == get_node_offset(seed)
        match == match_initial(
            [path |-> <<get_handle(seed)>>, offset |-> node_offset,
             state |-> get_bd_state(get_handle(seed)),
             read_interval |-> <<read_offset, read_offset>>,
             mismatch_positions |-> <<>>, score |-> 0,
             left_full |-> FALSE, right_full |-> FALSE,
             left_maximal |-> FALSE, right_maximal |-> FALSE,
             internal_score |-> 0, old_score |-> 0],
            sequence, get_sequence_view[get_handle(seed)])
        at_left == match.read_interval[1] = 0
        at_right == match.read_interval[2] >= Len(sequence)
    IN  set_score([match EXCEPT !.left_full = at_left, !.left_maximal = at_left,
                                !.right_full = at_right, !.right_maximal = at_right],
                  aligner)

\* The cache is deleted when extend() allocated it.
free_cache(c) == [c EXCEPT !.cache = IF @ = "allocated" THEN "nullptr" ELSE @]

\* The check of extend() without the pointers.
extend_invalid_trusting_pointers == cluster = {} \/ sequence = <<>>

\* The inputs extend() returns an empty result for.
extend_invalid ==
    \/ call.graph = "nullptr"
    \/ call.aligner = "nullptr"
    \/ cluster = {}
    \/ sequence = <<>>

\* Nothing to align or nothing to align with: the empty result is returned.
ExtendInvalid ==
    /\ pc = "start"
    /\ extend_invalid
    /\ pc' = "invalid"
    /\ UNCHANGED <<sequence, aligner, call, max_mismatches, overlap_threshold, cluster,
                   extensions, best_match, result, best_alignment, best_matches, trim_log>>
    /\ UNCHANGED connect_vars

\* The read is masked and a cache is allocated if none was provided.  The
\* cache is built over *graph and the first score is taken from *aligner:
\* with an unset pointer the call gets no further.
ExtendStart ==
    /\ pc = "start"
    /\ ~extend_invalid
    /\ sequence' = MaskRead(sequence)
    /\ call' = [call EXCEPT !.cache = IF @ = "nullptr" THEN "allocated" ELSE @]
    /\ pc' = IF call.graph = "nullptr" \/ call.aligner = "nullptr" THEN "abort" ELSE "seeds"
    /\ UNCHANGED <<aligner, max_mismatches, overlap_threshold, cluster,
                   extensions, best_match, result, best_alignment, best_matches, trim_log>>
    /\ UNCHANGED connect_vars

SkipSeed ==
    /\ pc = "seeds"
    /\ \E seed \in cluster :
        /\ seed_is_covered(seed)
        /\ cluster' = cluster \ {seed}
    /\ UNCHANGED <<sequence, aligner, max_mismatches, overlap_threshold, extensions,
                   best_match, result, best_alignment, best_matches, trim_log, pc>>
    /\ UNCHANGED <<call, connect_vars>>

StartSeed ==
    /\ pc = "seeds"
    /\ \E seed \in cluster :
        /\ ~seed_is_covered(seed)
        /\ cluster' = cluster \ {seed}
        /\ extensions' = {initial_match(seed)}
    /\ best_match' = NoMatch
    /\ pc' = "queue"
    /\ UNCHANGED <<sequence, aligner, max_mismatches, overlap_threshold, result,
                   best_alignment, best_matches, trim_log>>
    /\ UNCHANGED <<call, connect_vars>>

\* The extension std::priority_queue::top() may return.
is_top(curr) == curr \in extensions /\ \A e \in extensions : ~ExtLess(curr, e)

\* A limit that lets one more mismatch through.
mismatch_limit_off_by_one(curr) ==
    Max(max_mismatches + 1, (max_mismatches \div 2) + curr.old_score + 1) + 1

\* Always allow at least max_mismatches / 2 mismatches in the current flank.
mismatch_limit_of(curr) ==
    Max(max_mismatches + 1, (max_mismatches \div 2) + curr.old_score + 1)

\* The right-extension callback taking a child for right-maximal only at the
\* end of the read.
right_child_maximal_at_end(curr, next_state) ==
    LET handle == forward_node(next_state)
        m == match_forward([curr EXCEPT !.path = <<>>, !.state = next_state,
                                        !.mismatch_positions = <<>>],
                           sequence, get_sequence_view[handle], mismatch_limit_of(curr))
        next == [m.match EXCEPT !.path = Append(curr.path, handle)]
    IN  IF m.node_offset = 0 THEN {}
        ELSE {set_score(
                 IF next.read_interval[2] >= Len(sequence)
                 THEN [next EXCEPT !.right_full = TRUE, !.right_maximal = TRUE,
                                   !.old_score = next.internal_score]
                 ELSE next,
                 aligner)}

\* What the right-extension callback makes of one successor state: the child
\* it pushes, or nothing when no base of the node matched.
right_child(curr, next_state) ==
    LET handle == forward_node(next_state)
        m == match_forward([curr EXCEPT !.path = <<>>, !.state = next_state,
                                        !.mismatch_positions = <<>>],
                           sequence, get_sequence_view[handle], mismatch_limit_of(curr))
        next == [m.match EXCEPT !.path = Append(curr.path, handle)]
        at_end == next.read_interval[2] >= Len(sequence)
        inside == m.node_offset < get_length[handle]
    IN  IF m.node_offset = 0 THEN {}
        ELSE {set_score(
                 IF at_end
                 THEN [next EXCEPT !.right_full = TRUE, !.right_maximal = TRUE,
                                   !.old_score = next.internal_score]
                 ELSE IF inside
                 THEN [next EXCEPT !.right_maximal = TRUE,
                                   !.old_score = next.internal_score]
                 ELSE next,
                 aligner)}

right_children(curr) ==
    UNION {right_child(curr, next_state) : next_state \in follow_paths(curr.state, FALSE)}

RECURSIVE SumSizes(_)
SumSizes(children) ==
    IF children = {} THEN 0
    ELSE LET c == CHOOSE c \in children : TRUE
         IN  StateSize(c.state) + SumSizes(children \ {c})

\* Case 1 pushing the popped extension back as it was.
ExtendRight_pushing_back_unchanged ==
    /\ pc = "queue"
    /\ \E curr \in extensions :
        /\ is_top(curr)
        /\ ~curr.right_maximal
        /\ LET children == right_children(curr)
               num_extensions == SumSizes(children)
           IN  extensions' =
                   (extensions \ {curr}) \cup children \cup
                   (IF num_extensions < StateSize(curr.state) THEN {curr} ELSE {})
    /\ UNCHANGED <<sequence, aligner, max_mismatches, overlap_threshold, cluster,
                   best_match, result, best_alignment, best_matches, trim_log, pc>>
    /\ UNCHANGED <<call, connect_vars>>

\* Case 1: extend to the right.
ExtendRight ==
    /\ pc = "queue"
    /\ \E curr \in extensions :
        /\ is_top(curr)
        /\ ~curr.right_maximal
        /\ LET children == right_children(curr)
               num_extensions == SumSizes(children)
           IN  extensions' =
                   (extensions \ {curr}) \cup children \cup
                   (IF num_extensions < StateSize(curr.state)
                    THEN {[curr EXCEPT !.right_maximal = TRUE,
                                       !.old_score = curr.internal_score]}
                    ELSE {})
    /\ UNCHANGED <<sequence, aligner, max_mismatches, overlap_threshold, cluster,
                   best_match, result, best_alignment, best_matches, trim_log, pc>>
    /\ UNCHANGED <<call, connect_vars>>

\* The left-extension callback giving up at a mismatch on the first base.
left_child_requiring_match(curr, next_state) ==
    LET handle == first_node(next_state)
        node_length == get_length[handle]
        m == match_backward([curr EXCEPT !.path = <<>>, !.offset = node_length,
                                         !.state = next_state,
                                         !.mismatch_positions = <<>>],
                            sequence, get_sequence_view[handle], curr.internal_score + 1)
        next == [m EXCEPT !.path = <<handle>> \o curr.path]
    IN  IF m.offset >= node_length THEN {}
        ELSE {set_score(
                 IF next.read_interval[1] = 0
                 THEN [next EXCEPT !.left_full = TRUE, !.left_maximal = TRUE]
                 ELSE IF next.offset > 0
                 THEN [next EXCEPT !.left_maximal = TRUE]
                 ELSE next,
                 aligner)}

\* What the left-extension callback makes of one predecessor state.
left_child(curr, next_state) ==
    LET handle == first_node(next_state)
        node_length == get_length[handle]
        m == match_backward([curr EXCEPT !.path = <<>>, !.offset = node_length,
                                         !.state = next_state,
                                         !.mismatch_positions = <<>>],
                            sequence, get_sequence_view[handle], mismatch_limit_of(curr))
        next == [m EXCEPT !.path = <<handle>> \o curr.path]
    IN  IF m.offset >= node_length THEN {}
        ELSE {set_score(
                 IF next.read_interval[1] = 0
                 THEN [next EXCEPT !.left_full = TRUE, !.left_maximal = TRUE]
                 ELSE IF next.offset > 0
                 THEN [next EXCEPT !.left_maximal = TRUE]
                 ELSE next,
                 aligner)}

left_children(curr) ==
    UNION {left_child(curr, next_state) : next_state \in follow_paths(curr.state, TRUE)}

\* Case 2: extend to the left; found_extension.
ExtendLeft ==
    /\ pc = "queue"
    /\ \E curr \in extensions :
        /\ is_top(curr)
        /\ curr.right_maximal /\ ~curr.left_maximal
        /\ left_children(curr) # {}
        /\ extensions' = (extensions \ {curr}) \cup left_children(curr)
    /\ UNCHANGED <<sequence, aligner, max_mismatches, overlap_threshold, cluster,
                   best_match, result, best_alignment, best_matches, trim_log, pc>>
    /\ UNCHANGED <<call, connect_vars>>

\* Case 2 without an extension: the popped extension becomes left-maximal and
\* falls through to Case 3.
LeftMaximal ==
    /\ pc = "queue"
    /\ \E curr \in extensions :
        /\ is_top(curr)
        /\ curr.right_maximal /\ ~curr.left_maximal
        /\ left_children(curr) = {}
        /\ extensions' = extensions \ {curr}
        /\ best_match' = IF ExtLess(best_match, curr)
                         THEN [curr EXCEPT !.left_maximal = TRUE]
                         ELSE best_match
    /\ UNCHANGED <<sequence, aligner, max_mismatches, overlap_threshold, cluster,
                   result, best_alignment, best_matches, trim_log, pc>>
    /\ UNCHANGED <<call, connect_vars>>

\* Case 3: a maximal extension with a better score than the best so far.
Maximal ==
    /\ pc = "queue"
    /\ \E curr \in extensions :
        /\ is_top(curr)
        /\ curr.right_maximal /\ curr.left_maximal
        /\ extensions' = extensions \ {curr}
        /\ best_match' = IF ExtLess(best_match, curr) THEN curr ELSE best_match
    /\ UNCHANGED <<sequence, aligner, max_mismatches, overlap_threshold, cluster,
                   result, best_alignment, best_matches, trim_log, pc>>
    /\ UNCHANGED <<call, connect_vars>>

\* Add the best match to the result and update the best_alignment offset.
FinishSeed ==
    /\ pc = "queue"
    /\ extensions = {}
    /\ IF ~empty(best_match)
       THEN /\ result' = Append(result, best_match)
            /\ best_alignment' =
                 IF /\ full(best_match)
                    /\ \/ best_alignment >= Len(result)
                       \/ best_match.internal_score
                            < result[best_alignment + 1].internal_score
                 THEN Len(result)
                 ELSE best_alignment
       ELSE UNCHANGED <<result, best_alignment>>
    /\ pc' = "seeds"
    /\ UNCHANGED <<sequence, aligner, max_mismatches, overlap_threshold, cluster,
                   extensions, best_match, best_matches, trim_log>>
    /\ UNCHANGED <<call, connect_vars>>

\* The mode selection without the mismatch budget.
good_full_length_any_budget ==
    best_alignment < Len(result)

\* We have a good enough full-length alignment.
good_full_length ==
    /\ best_alignment < Len(result)
    /\ result[best_alignment + 1].internal_score <= max_mismatches

\* Return the best sufficiently distinct full-length alignments.
ReturnFullLength ==
    /\ pc = "seeds"
    /\ cluster = {}
    /\ good_full_length
    /\ \E kept \in handle_full_length(result, overlap_threshold) :
        result' = find_mismatches(sequence, kept)
    /\ best_matches' = result
    /\ pc' = "full_length"
    /\ UNCHANGED <<sequence, aligner, max_mismatches, overlap_threshold, cluster,
                   extensions, best_match, best_alignment, trim_log>>
    /\ call' = free_cache(call)
    /\ UNCHANGED connect_vars

\* Otherwise remove duplicates, find mismatches, and trim the extensions.
ReturnPartial ==
    /\ pc = "seeds"
    /\ cluster = {}
    /\ ~good_full_length
    /\ \E unique \in remove_duplicates(result) :
        LET found == find_mismatches(sequence, unique)
            after == [i \in 1 .. Len(found) |-> trim_mismatches(found[i], aligner)]
        IN  /\ IF \E i \in 1 .. Len(found) : trimmed(found[i], aligner)
               THEN result' \in remove_duplicates(after)
               ELSE result' = after
            /\ trim_log' = [i \in 1 .. Len(found) |->
                               [before |-> found[i], after |-> after[i]]]
    /\ best_matches' = result
    /\ pc' = "partial"
    /\ UNCHANGED <<sequence, aligner, max_mismatches, overlap_threshold, cluster,
                   extensions, best_match, best_alignment>>
    /\ call' = free_cache(call)
    /\ UNCHANGED connect_vars

\* GaplessExtender::full_length_extensions()
full_length_extensions(res, mismatch_budget) ==
    /\ Len(res) > 0
    /\ full(res[1])
    /\ mismatches(res[1]) <= mismatch_budget

Next ==
    \/ ExtendInvalid
    \/ ExtendStart
    \/ SkipSeed
    \/ StartSeed
    \/ ExtendRight
    \/ ExtendLeft
    \/ LeftMaximal
    \/ Maximal
    \/ FinishSeed
    \/ ReturnFullLength
    \/ ReturnPartial

Spec == Init /\ [][Next]_vars

\* The queue loop of one seed: the valid calls of extend() with one seed in a
\* non-empty read.  The loop of a seed reads the sequence, the seed, the
\* aligner and max_mismatches only, so these are the loops of every call.
InitQueue ==
    /\ Init
    /\ Cardinality(cluster) = 1
    /\ sequence # <<>>
    /\ call.graph = "set" /\ call.aligner = "set"

NextQueue ==
    \/ ExtendStart
    \/ StartSeed
    \/ ExtendRight
    \/ ExtendLeft
    \/ LeftMaximal
    \/ Maximal
    \/ FinishSeed

\* extend() runs on one thread and every iteration of the while loop returns:
\* while the queue holds an extension, the next one is popped.
SpecQueue ==
    /\ InitQueue
    /\ [][NextQueue]_vars
    /\ WF_vars(ExtendRight \/ ExtendLeft \/ LeftMaximal \/ Maximal)

\* An iteration that leaves alone every extension scoring below the best match.
pop_result_pruning(curr) ==
    IF ExtLess(curr, best_match) THEN [pushed |-> {}, compared |-> {}]
    ELSE IF ~curr.right_maximal
    THEN [pushed |-> right_children(curr) \cup
                     (IF SumSizes(right_children(curr)) < StateSize(curr.state)
                      THEN {[curr EXCEPT !.right_maximal = TRUE,
                                         !.old_score = curr.internal_score]}
                      ELSE {}),
          compared |-> {}]
    ELSE IF ~curr.left_maximal /\ left_children(curr) # {}
    THEN [pushed |-> left_children(curr), compared |-> {}]
    ELSE [pushed |-> {}, compared |-> {[curr EXCEPT !.left_maximal = TRUE]}]

\* One iteration of the while loop on the extension curr, whatever else the
\* queue holds: the extensions it pushes (Case 1, Case 2) and the extension it
\* compares with the best match (Case 3).
pop_result(curr) ==
    IF ~curr.right_maximal
    THEN [pushed |-> right_children(curr) \cup
                     (IF SumSizes(right_children(curr)) < StateSize(curr.state)
                      THEN {[curr EXCEPT !.right_maximal = TRUE,
                                         !.old_score = curr.internal_score]}
                      ELSE {}),
          compared |-> {}]
    ELSE IF ~curr.left_maximal /\ left_children(curr) # {}
    THEN [pushed |-> left_children(curr), compared |-> {}]
    ELSE [pushed |-> {}, compared |-> {[curr EXCEPT !.left_maximal = TRUE]}]

\* The iteration of the while loop with a queue that may hand out any of its
\* extensions.
PopAnyOrder ==
    /\ pc = "queue"
    /\ \E curr \in extensions : \E popped \in {pop_result(curr)} :
        /\ extensions' = (extensions \ {curr}) \cup popped.pushed
        /\ best_match' = IF \E c \in popped.compared : ExtLess(best_match, c)
                         THEN CHOOSE c \in popped.compared : TRUE
                         ELSE best_match
    /\ UNCHANGED <<sequence, aligner, max_mismatches, overlap_threshold, cluster,
                   result, best_alignment, best_matches, trim_log, pc>>
    /\ UNCHANGED <<call, connect_vars>>

NextAnyOrder ==
    \/ ExtendStart
    \/ StartSeed
    \/ ExtendRight
    \/ ExtendLeft
    \/ LeftMaximal
    \/ Maximal
    \/ PopAnyOrder
    \/ FinishSeed

\* The queue loop of one seed under every pop order, the order of the
\* priority queue among them.
SpecAnyOrder ==
    /\ InitQueue
    /\ [][NextAnyOrder]_vars
    /\ WF_vars(PopAnyOrder)

(***************************************************************************)
(* WFAExtender::connect() as a state machine.  sequence and aligner are    *)
(* the call's sequence and the extender's aligner.                         *)
(***************************************************************************)
\* The sequences connect() is called with; N is a base the masker replaces.
ConnectSequences ==
    { <<>>, <<"A">>, <<"G", "A">>, <<"G", "G", "G", "G", "T">>, <<"G", "C">>,
      <<"G", "G", "T">>, <<"G", "N">>, <<"T", "A", "C", "A">> }

\* The start positions: node 3 is on no haplotype.
ConnectFrom ==
    { [id |-> 1, is_rev |-> FALSE, offset |-> 0],
      [id |-> 4, is_rev |-> FALSE, offset |-> 0],
      [id |-> 5, is_rev |-> FALSE, offset |-> 0],
      [id |-> 3, is_rev |-> FALSE, offset |-> 0] }

\* The end positions, and no end position.
ConnectTo ==
    { NoPos,
      [id |-> 2, is_rev |-> FALSE, offset |-> 0],
      [id |-> 4, is_rev |-> FALSE, offset |-> 2],
      [id |-> 9, is_rev |-> FALSE, offset |-> 0] }

\* A call of connect(sequence, from, to), of suffix(sequence, from) or of
\* prefix(sequence, to); the extender's graph and aligner may be unset (with
\* connect(), these are tried without an end position).
ConnectInit ==
    \E seq \in ConnectSequences, conf \in Configurations :
    \E entry \in {"connect", "suffix", "prefix"} :
    \E from \in ConnectFrom, to \in ConnectTo :
    \E pointers \in [graph : {"nullptr", "set"}, aligner : {"nullptr", "set"}] :
        /\ entry = "connect" /\ ~no_pos(to) =>
              pointers = [graph |-> "set", aligner |-> "set"]
        /\ entry # "connect" => no_pos(to)
        /\ sequence = seq
        /\ aligner = conf[1]
        /\ call = [entry |-> entry, graph |-> pointers.graph,
                   aligner |-> pointers.aligner, cache |-> "nullptr"]
        /\ connect_from = IF entry = "prefix" THEN NoPos ELSE from
        /\ connect_to = IF entry = "prefix" THEN from ELSE to
        /\ tree = <<>>
        /\ loop_score = 0
        /\ connect_result = EmptyAlignment
        /\ connect_pc = IF entry = "connect" THEN "start" ELSE entry
        /\ max_mismatches = 0
        /\ overlap_threshold = conf[2]
        /\ cluster = {}
        /\ extensions = {}
        /\ best_match = NoMatch
        /\ result = <<>>
        /\ best_alignment = UNSET
        /\ best_matches = <<>>
        /\ trim_log = <<>>
        /\ pc = "idle"

\* graph->get_state(graph->get_handle(id(from), is_rev(from)))
root_state == get_bd_state(pos_handle(connect_from))

\* The inputs connect() returns an empty alignment for.
connect_invalid ==
    \/ call.graph = "nullptr"
    \/ call.aligner = "nullptr"
    \/ sequence = <<>>
    \/ root_state = {}

\* WFAExtender::suffix(): connect() without an end position.
Suffix ==
    /\ connect_pc = "suffix"
    /\ connect_to' = NoPos
    /\ connect_pc' = "start"
    /\ UNCHANGED <<sequence, aligner, call, connect_from, tree, loop_score, connect_result>>
    /\ UNCHANGED extend_vars

\* WFAExtender::prefix(): nothing without a graph; else connect() from the
\* same base on the other strand, over the reverse complement, without an end
\* position.
Prefix ==
    /\ connect_pc = "prefix"
    /\ IF call.graph = "nullptr"
       THEN /\ connect_result' = EmptyAlignment
            /\ connect_pc' = "returned"
            /\ UNCHANGED <<sequence, connect_from, connect_to>>
       ELSE LET node_length == get_length[pos_handle(connect_to)]
                reverse_base_pos == [id |-> connect_to.id,
                                     is_rev |-> ~connect_to.is_rev,
                                     offset |-> node_length - connect_to.offset - 1]
                reverse_complement == [i \in 1 .. Len(sequence) |->
                                          Complement(sequence[Len(sequence) + 1 - i])]
            IN  /\ connect_from' = reverse_base_pos
                /\ connect_to' = NoPos
                /\ sequence' = reverse_complement
                /\ connect_pc' = "start"
                /\ UNCHANGED connect_result
    /\ UNCHANGED <<aligner, call, tree, loop_score>>
    /\ UNCHANGED extend_vars

\* prefix() flips what connect() returned: WFAAlignment::flip leaves an empty
\* alignment alone, and else turns offsets, path and edits around.
PrefixReturn ==
    /\ connect_pc = "done"
    /\ call.entry = "prefix"
    /\ connect_result' =
          IF alignment_empty(connect_result) THEN connect_result
          ELSE [connect_result EXCEPT
                   !.seq_offset = Len(sequence) - connect_result.seq_offset
                                      - connect_result.length,
                   !.node_offset = get_length[connect_result.path[Len(connect_result.path)]]
                                       - final_offset(connect_result),
                   !.path = [i \in 1 .. Len(connect_result.path) |->
                                flip(connect_result.path[Len(connect_result.path) + 1 - i])],
                   !.edits = reversed(connect_result.edits)]
    /\ connect_pc' = "returned"
    /\ UNCHANGED <<sequence, aligner, call, connect_from, connect_to, tree, loop_score>>
    /\ UNCHANGED extend_vars

\* Nothing to align or nothing to align with, or a start node on no haplotype:
\* an empty alignment.
ConnectInvalid ==
    /\ connect_pc = "start"
    /\ connect_invalid
    /\ connect_result' = EmptyAlignment
    /\ connect_pc' = "done"
    /\ UNCHANGED <<sequence, aligner, connect_from, connect_to, tree, loop_score>>
    /\ UNCHANGED <<call, extend_vars>>

\* The sequence is masked and the tree is built over the root state.
ConnectStart ==
    /\ connect_pc = "start"
    /\ ~connect_invalid
    /\ sequence' = MaskRead(sequence)
    /\ tree' = WFATree(MaskRead(sequence), root_state, aligner)
    /\ loop_score' = 0
    /\ connect_pc' = IF call.graph = "nullptr" \/ call.aligner = "nullptr"
                     THEN "abort" ELSE "extend"
    /\ UNCHANGED <<aligner, connect_from, connect_to, connect_result>>
    /\ UNCHANGED <<call, extend_vars>>

\* The loop without the score bound.
ConnectExtend_unbounded ==
    /\ connect_pc = "extend"
    /\ LET extended == wfa_extend(tree, loop_score, connect_to)
       IN  /\ tree' = extended
           /\ IF extended.candidate_point.score <= loop_score
              THEN /\ loop_score' = loop_score
                   /\ connect_pc' = "finish"
              ELSE /\ loop_score' = loop_score + 1
                   /\ connect_pc' = "next"
    /\ UNCHANGED <<sequence, aligner, connect_from, connect_to, connect_result>>
    /\ UNCHANGED <<call, extend_vars>>

\* The loop going on two scores further.
ConnectExtend_skipping_a_score ==
    /\ connect_pc = "extend"
    /\ LET extended == wfa_extend(tree, loop_score, connect_to)
       IN  /\ tree' = extended
           /\ IF extended.candidate_point.score <= loop_score
              THEN /\ loop_score' = loop_score
                   /\ connect_pc' = "finish"
              ELSE /\ loop_score' = loop_score + 2
                   /\ connect_pc' = IF loop_score + 2 > extended.score_bound
                                    THEN "finish" ELSE "next"
    /\ UNCHANGED <<sequence, aligner, connect_from, connect_to, connect_result>>
    /\ UNCHANGED <<call, extend_vars>>

\* tree.extend(score, to), then the two ways out of the loop.
ConnectExtend ==
    /\ connect_pc = "extend"
    /\ LET extended == wfa_extend(tree, loop_score, connect_to)
       IN  /\ tree' = extended
           /\ IF extended.candidate_point.score <= loop_score
              THEN /\ loop_score' = loop_score
                   /\ connect_pc' = "finish"
              ELSE /\ loop_score' = loop_score + 1
                   /\ connect_pc' = IF loop_score + 1 > extended.score_bound
                                    THEN "finish" ELSE "next"
    /\ UNCHANGED <<sequence, aligner, connect_from, connect_to, connect_result>>
    /\ UNCHANGED <<call, extend_vars>>

\* tree.next(score, to)
ConnectNext ==
    /\ connect_pc = "next"
    /\ tree' = wfa_next(tree, loop_score, connect_to)
    /\ connect_pc' = "extend"
    /\ UNCHANGED <<sequence, aligner, connect_from, connect_to, loop_score, connect_result>>
    /\ UNCHANGED <<call, extend_vars>>

\* After the loop: trim or give up without a candidate within the bound, then
\* build the alignment by backtracing from the candidate.
ConnectFinish ==
    /\ connect_pc = "finish"
    /\ LET unreached == tree.candidate_point.score > tree.score_bound
           final == IF unreached /\ no_pos(connect_to) THEN wfa_trim(tree, aligner) ELSE tree
       IN  /\ tree' = final
           /\ connect_result' =
                IF unreached /\ ~no_pos(connect_to) THEN EmptyAlignment
                ELSE IF final.candidate_point.seq_offset = 0 THEN EmptyAlignment
                ELSE build_alignment(final, connect_from, aligner, ~unreached)
    /\ connect_pc' = "done"
    /\ UNCHANGED <<sequence, aligner, connect_from, connect_to, loop_score>>
    /\ UNCHANGED <<call, extend_vars>>

NextConnect ==
    \/ Suffix
    \/ Prefix
    \/ PrefixReturn
    \/ ConnectInvalid
    \/ ConnectStart
    \/ ConnectExtend
    \/ ConnectNext
    \/ ConnectFinish

SpecConnect == ConnectInit /\ [][NextConnect]_vars

\* connect() runs on one thread and every step of it returns.
SpecConnectFair == SpecConnect /\ WF_vars(NextConnect)

(***************************************************************************)
(* WFATree and WFANode on their own: the tree as the constructor leaves    *)
(* it, and its operations applied in any order with any arguments.         *)
(***************************************************************************)
\* The scores the operations are applied with; and the points and the nodes
\* a tree holds when update() and propagate() are applied from outside
\* extend() and next().
MaxTreeScore == 4
MaxPoints == 2
MaxTreeNodes == 4

TreeSequences == { <<"G", "A">>, <<"G", "G", "T">> }

\* The points of the tree, each with its node and type.
tree_points(t) ==
    { <<node, type, i>> \in (0 .. size(t) - 1) \X {MATCHES, INSERTIONS, DELETIONS}
                              \X (1 .. MaxPoints + MaxTreeScore + 8) :
          i <= Len(t.nodes[node + 1].wavefronts[type + 1]) }

TreeInit ==
    \E seq \in TreeSequences, from \in ConnectFrom :
    \E to \in {NoPos} :
        /\ get_bd_state(pos_handle(from)) # {}
        /\ sequence = seq
        /\ aligner = [match |-> 1, mismatch |-> 1, gap_open |-> 1, gap_extension |-> 1,
                      full_length_bonus |-> 0]
        /\ call = [entry |-> "connect", graph |-> "set", aligner |-> "set",
                   cache |-> "nullptr"]
        /\ connect_from = from
        /\ connect_to = to
        /\ tree = WFATree(seq, get_bd_state(pos_handle(from)), aligner)
        /\ loop_score = 0
        /\ connect_result = EmptyAlignment
        /\ connect_pc = "tree"
        /\ max_mismatches = 0
        /\ overlap_threshold = <<1, 2>>
        /\ cluster = {}
        /\ extensions = {}
        /\ best_match = NoMatch
        /\ result = <<>>
        /\ best_alignment = UNSET
        /\ best_matches = <<>>
        /\ trim_log = <<>>
        /\ pc = "idle"

\* WFANode::update on a node of the tree.
TreeUpdate ==
    /\ connect_pc = "tree"
    /\ loop_score = 0
    /\ Cardinality(tree_points(tree)) < MaxPoints
    /\ \E node \in 0 .. size(tree) - 1, type \in {MATCHES, INSERTIONS, DELETIONS} :
       \E diagonal \in 0 .. 1, at_end \in BOOLEAN :
           tree' = tree_update(tree, node, type, loop_score, diagonal,
                               IF at_end THEN 1 ELSE 0,
                               IF at_end THEN wfa_node_length(tree.nodes[node + 1]) ELSE 0)
    /\ UNCHANGED <<sequence, aligner, call, connect_from, connect_to, loop_score,
                   connect_result, connect_pc>>
    /\ UNCHANGED extend_vars

\* WFATree::propagate for a position on a node of the tree.
TreePropagate ==
    /\ connect_pc = "tree"
    /\ loop_score = 0
    /\ size(tree) < MaxTreeNodes
    /\ \E node \in 0 .. size(tree) - 1 :
       \E path \in {<<node>>, <<node, parent(tree, node)>>} :
       \E node_offset \in {0, wfa_node_length(tree.nodes[node + 1])} :
           tree' = propagate(tree, [seq_offset |-> 1, node_offset |-> node_offset,
                                    path |-> path],
                             loop_score, 0, MATCHES).tree
    /\ UNCHANGED <<sequence, aligner, call, connect_from, connect_to, loop_score,
                   connect_result, connect_pc>>
    /\ UNCHANGED extend_vars

\* WFATree::extend for the current score.
TreeExtend ==
    /\ connect_pc = "tree"
    /\ tree' = wfa_extend(tree, loop_score, connect_to)
    /\ UNCHANGED <<sequence, aligner, call, connect_from, connect_to, loop_score,
                   connect_result, connect_pc>>
    /\ UNCHANGED extend_vars

\* WFATree::next for the next score.
TreeNext ==
    /\ connect_pc = "tree"
    /\ loop_score < MaxTreeScore
    /\ tree' = wfa_next(tree, loop_score + 1, connect_to)
    /\ loop_score' = loop_score + 1
    /\ UNCHANGED <<sequence, aligner, call, connect_from, connect_to,
                   connect_result, connect_pc>>
    /\ UNCHANGED extend_vars

NextTree == TreeUpdate \/ TreePropagate \/ TreeExtend \/ TreeNext

SpecTree == TreeInit /\ [][NextTree]_vars

(***************************************************************************)
(* The entries of extend(), connect(), suffix() and prefix(): the checks   *)
(* each call starts with, and what comes of a call that fails them.        *)
(***************************************************************************)
NextEntry ==
    \/ ExtendInvalid
    \/ ExtendStart
    \/ Suffix
    \/ Prefix
    \/ ConnectInvalid
    \/ ConnectStart
    \/ PrefixReturn

SpecEntry == (Init \/ ConnectInit) /\ [][NextEntry]_vars


(***************************************************************************)
(* Properties of GaplessExtender::extend().                                *)
(***************************************************************************)
Returned == pc \in {"full_length", "partial"}

Indexes(vec) == 1 .. Len(vec)

Positions(e) == e.read_interval[1] .. e.read_interval[2] - 1

MismatchSet(e) == {e.mismatch_positions[k] : k \in Indexes(e.mismatch_positions)}

\* The bases of the nodes of a path, one after the other.
RECURSIVE PathSequence(_)
PathSequence(path) ==
    IF path = <<>> THEN <<>>
    ELSE get_sequence_view[Head(path)] \o PathSequence(Tail(path))

\* The graph base aligned with read offset r.
GraphBaseAt(e, r) == PathSequence(e.path)[e.offset + (r - e.read_interval[1]) + 1]

\* The per-seed best matches that span the whole read.
FullMatches == {i \in Indexes(best_matches) : full(best_matches[i])}

\* C1: extend() returns in one of two modes.  It returns the full-length
\* alignments exactly when some per-seed best match spans the whole read with
\* internal_score at most max_mismatches; then every returned extension is
\* full-length and full_length_extensions(result, max_mismatches) is true.
\* Otherwise full_length_extensions(result, max_mismatches) is false.
C1_TwoModes ==
    /\ pc = "full_length" =>
        /\ \E i \in FullMatches : best_matches[i].internal_score <= max_mismatches
        /\ \A i \in Indexes(result) : full(result[i])
        /\ full_length_extensions(result, max_mismatches)
    /\ pc = "partial" =>
        /\ \A i \in FullMatches : best_matches[i].internal_score > max_mismatches
        /\ ~full_length_extensions(result, max_mismatches)

\* A read whose only full-length match exceeds the budget is returned as
\* partial extensions.
C1_Witness ==
    /\ pc = "partial"
    /\ FullMatches # {}
    /\ result # <<>>

\* A full-length return from more than one seed.
C1_WitnessFull ==
    /\ pc = "full_length"
    /\ Len(best_matches) > Len(result)

\* The extension is a gapless alignment of its read interval to its path.
GaplessAlignment(e) ==
    /\ e.path # <<>>
    /\ e.read_interval[1] < e.read_interval[2]
    /\ e.read_interval[2] <= Len(sequence)
    /\ e.offset < get_length[e.path[1]]
    /\ e.offset + length(e) <= Len(PathSequence(e.path))
    /\ e.offset + length(e) > Len(PathSequence(SubSeq(e.path, 1, Len(e.path) - 1)))
    /\ \A k \in Indexes(e.mismatch_positions) :
        k > 1 => e.mismatch_positions[k - 1] < e.mismatch_positions[k]
    /\ MismatchSet(e) \subseteq Positions(e)
    /\ \A r \in Positions(e) :
        (sequence[r + 1] # GraphBaseAt(e, r)) <=> (r \in MismatchSet(e))

\* C2: every non-empty extension extend() returns walks its path from offset
\* consuming exactly the read interval's bases, every node contributing one
\* base at least, and mismatch_positions lists, strictly increasing, exactly
\* the read offsets whose base differs from the graph base.
C2_Gapless ==
    Returned => \A i \in Indexes(result) : ~empty(result[i]) => GaplessAlignment(result[i])

\* A trimmed extension over several nodes that still holds a mismatch.
C2_Witness ==
    /\ pc = "partial"
    /\ \E i \in Indexes(result) :
        /\ Len(result[i].path) >= 2
        /\ result[i].mismatch_positions # <<>>
        /\ \A j \in Indexes(best_matches) :
            result[i].read_interval # best_matches[j].read_interval

\* C3: the state of every non-empty returned extension is the non-empty
\* bidirectional search state of its path, also after trimming.
C3_Haplotype ==
    Returned =>
        \A i \in Indexes(result) :
            ~empty(result[i]) =>
                /\ result[i].state = bd_find(result[i].path)
                /\ result[i].state # {}

\* An extension whose path was shortened by trimming.
C3_Witness ==
    /\ pc = "partial"
    /\ \E k \in Indexes(trim_log) :
        /\ ~empty(trim_log[k].after)
        /\ Len(trim_log[k].after.path) < Len(trim_log[k].before.path)
        /\ \E i \in Indexes(result) : result[i] = trim_log[k].after

\* C4 as stated: every extension returned in full-length mode has
\* internal_score at most max_mismatches.
C4_AllWithinBudget ==
    pc = "full_length" =>
        \A i \in Indexes(result) : result[i].internal_score <= max_mismatches

\* C4: in full-length mode the first returned extension has internal_score
\* at most max_mismatches; the extensions after it are full-length and
\* sufficiently distinct, whatever their internal_score.
C4_FirstWithinBudget ==
    pc = "full_length" =>
        /\ result # <<>>
        /\ result[1].internal_score <= max_mismatches

\* A full-length return that holds an extension over the budget.
C4_Witness ==
    /\ pc = "full_length"
    /\ \E i \in Indexes(result) : result[i].internal_score > max_mismatches

\* The <<handle, offset>> of the bases of a path, one after the other.
RECURSIVE PathPositions(_)
PathPositions(path) ==
    IF path = <<>> THEN <<>>
    ELSE [i \in 1 .. get_length[Head(path)] |-> <<Head(path), i - 1>>]
            \o PathPositions(Tail(path))

\* Some haplotype spells the sequence from the start position on and, with an
\* end position, its last base is the base at the end position.
HaplotypeSpellsSequence ==
    \E k \in DOMAIN Haps : \E i \in 1 .. Len(Haps[k]) :
        /\ Haps[k][i] = pos_handle(connect_from)
        /\ LET rest == SubSeq(Haps[k], i, Len(Haps[k]))
               first == connect_from.offset + 1
               last == connect_from.offset + Len(sequence)
           IN  /\ sequence # <<>>
               /\ last <= Len(PathSequence(rest))
               /\ SubSeq(PathSequence(rest), first, last) = sequence
               /\ \/ no_pos(connect_to)
                  \/ PathPositions(rest)[last] = <<pos_handle(connect_to), connect_to.offset>>

\* C5 as stated, in the case of a sequence that matches a haplotype path from
\* the start position exactly (an alignment of penalty 0, within every
\* score_bound): connect() returns a non-empty alignment whose edit script is
\* a single run of matches over the whole sequence.
C5_ExactMatchFound ==
    connect_pc = "done" /\ HaplotypeSpellsSequence =>
        /\ ~alignment_empty(connect_result)
        /\ connect_result.edits = <<<<"match", Len(sequence)>>>>

\* What connect() does instead: no point is ever stored in a wavefront, the
\* tree stays its root, and the alignment returned is empty.
C5_NothingAligned ==
    /\ connect_pc \in {"extend", "next", "finish", "done"} /\ tree # <<>> =>
        /\ size(tree) = 1
        /\ tree.nodes[1].wavefronts = <<<<>>, <<>>, <<>>>>
    /\ connect_pc = "done" => alignment_empty(connect_result)

RECURSIVE EditBases(_, _)
EditBases(edits, types) ==
    IF edits = <<>> THEN 0
    ELSE (IF Head(edits)[1] \in types THEN Head(edits)[2] ELSE 0)
            + EditBases(Tail(edits), types)

\* C6: for every non-empty alignment connect() returns, the edit lengths sum
\* to length, and the bases of the path minus node_offset minus the unused
\* suffix of the last node are length plus the deleted minus the inserted bases.
C6_EditAccounting ==
    connect_pc = "done" /\ ~alignment_empty(connect_result) =>
        /\ EditBases(connect_result.edits, {"match", "mismatch", "insertion"})
             = connect_result.length
        /\ path_length(connect_result.path) - connect_result.node_offset
             - (get_length[connect_result.path[Len(connect_result.path)]]
                  - final_offset(connect_result))
             = connect_result.length
                 + EditBases(connect_result.edits, {"deletion"})
                 - EditBases(connect_result.edits, {"insertion"})

\* The score the scoring model gives the extension.
ClaimedScore(e) ==
    (length(e) - e.internal_score) * aligner.match
        - e.internal_score * aligner.mismatch
        + (IF e.left_full THEN aligner.full_length_bonus ELSE 0)
        + (IF e.right_full THEN aligner.full_length_bonus ELSE 0)

\* C7: every extension on the queue and every best extension has score
\* (length - internal_score) * match - internal_score * mismatch
\* + left_full * full_length_bonus + right_full * full_length_bonus.
C7_Score ==
    /\ \A e \in extensions : e.score = ClaimedScore(e)
    /\ best_match # NoMatch => best_match.score = ClaimedScore(best_match)
    /\ pc \in {"seeds", "queue"} =>
        \A i \in Indexes(result) : result[i].score = ClaimedScore(result[i])

\* A best extension without mismatches that spans the whole read: its score is
\* match * |read| + 2 * full_length_bonus.
C7_Witness ==
    /\ aligner.full_length_bonus > 0
    /\ best_match # NoMatch
    /\ full(best_match)
    /\ best_match.internal_score = 0
    /\ best_match.score = aligner.match * Len(sequence) + 2 * aligner.full_length_bonus

\* C8: any two extensions a, b returned in full-length mode satisfy
\* a.overlap(b) <= overlap_threshold * b.length(), in both directions.
C8_LowOverlap ==
    pc = "full_length" =>
        \A i, j \in Indexes(result) :
            i # j => overlap(result[i], result[j]) * overlap_threshold[2]
                        <= overlap_threshold[1] * length(result[j])

\* Two overlapping alignments are both kept and a third match was removed.
C8_Witness ==
    /\ pc = "full_length"
    /\ Len(result) >= 2
    /\ overlap(result[1], result[2]) > 0
    /\ overlap(result[2], result[1]) > 0

\* An alignment over the threshold was removed.
C8_WitnessRemoved ==
    /\ pc = "full_length"
    /\ Cardinality(FullMatches) > Len(result)

SubScore(e, a, b) ==
    LET bad == Cardinality(MismatchSet(e) \cap (a .. b - 1))
    IN  ((b - a) - bad) * aligner.match - bad * aligner.mismatch
            + (IF e.left_full /\ a = e.read_interval[1]
               THEN aligner.full_length_bonus ELSE 0)
            + (IF e.right_full /\ b = e.read_interval[2]
               THEN aligner.full_length_bonus ELSE 0)

\* The largest score of a contiguous non-empty sub-interval; 0 for nothing.
MaxSubScore(e) ==
    LET proper == {0} \cup
            {SubScore(e, ab[1], ab[2]) :
                ab \in {x \in Positions(e) \X (e.read_interval[1] + 1 .. e.read_interval[2]) :
                            x[1] < x[2]}}
    IN  CHOOSE m \in proper : \A x \in proper : x <= m

\* C10 as stated: trim_mismatches() leaves the contiguous read sub-interval
\* with the maximum score, the stored score is that maximum, and the path,
\* the offset and the mismatch positions are those of the sub-interval.
C10_TrimMaximal ==
    pc = "partial" =>
        \A k \in Indexes(trim_log) :
            LET before == trim_log[k].before
                after == trim_log[k].after
            IN  /\ after.score = MaxSubScore(before)
                /\ ~empty(after) =>
                    /\ after.read_interval[1] >= before.read_interval[1]
                    /\ after.read_interval[2] <= before.read_interval[2]
                    /\ after.score =
                         SubScore(before, after.read_interval[1], after.read_interval[2])
                    /\ MismatchSet(after) = MismatchSet(before) \cap Positions(after)
                    /\ \A r \in Positions(after) :
                         GraphBaseAt(after, r) = GraphBaseAt(before, r)

\* What remains of C10: an empty interval at an end of the read that the
\* extension reaches is scored full_length_bonus and may win over every
\* non-empty interval, and then the whole extension is trimmed away.
C10_TrimMaximalUnlessBonus ==
    pc = "partial" =>
        \A k \in Indexes(trim_log) :
            LET before == trim_log[k].before
                after == trim_log[k].after
            IN  \/ after.score = MaxSubScore(before)
                \/ /\ empty(after)
                   /\ after.score = 0
                   /\ MaxSubScore(before) < aligner.full_length_bonus
                   /\ \/ /\ before.left_full
                         /\ before.read_interval[1] \in MismatchSet(before)
                      \/ /\ before.right_full
                         /\ before.read_interval[2] - 1 \in MismatchSet(before)

(***************************************************************************)
(* Properties of trimming, duplicates and maximal extensions.              *)
(***************************************************************************)
\* C11: trim_mismatches() applied to an extension that trim_mismatches() has
\* returned changes none of its fields, so it returns false: trimming is
\* idempotent.
C11_TrimIdempotent ==
    pc = "partial" =>
        \A i \in Indexes(trim_log) :
            /\ trim_mismatches(trim_log[i].after, aligner) = trim_log[i].after
            /\ ~trimmed(trim_log[i].after, aligner)

\* An extension was trimmed to a shorter one that still holds a mismatch, so
\* that trimming it again scans its mismatches.
C11_Witness ==
    /\ pc = "partial"
    /\ \E i \in Indexes(trim_log) :
        /\ trim_log[i].after # trim_log[i].before
        /\ ~exact(trim_log[i].after)

\* The read intervals in lexicographic order, a before b or the same.
IntervalLeq(a, b) == a[1] < b[1] \/ (a[1] = b[1] /\ a[2] <= b[2])

\* C12: in partial mode the extensions returned are sorted by read_interval
\* (ties by search state, then offset), none of them is empty, and no two of
\* them have the same read_interval, search state and offset.
C12_SortedDistinct ==
    pc = "partial" =>
        /\ \A i \in Indexes(result) : ~empty(result[i])
        /\ \A i, j \in Indexes(result) :
            i < j =>
                /\ IntervalLeq(result[i].read_interval, result[j].read_interval)
                /\ ~sort_order(result[j], result[i])
                /\ ~(/\ result[i].read_interval = result[j].read_interval
                     /\ result[i].state = result[j].state
                     /\ result[i].offset = result[j].offset)

\* Two seeds led to the same maximal extension, which is returned once.
C12_Witness ==
    /\ pc = "partial"
    /\ Len(result) = 1
    /\ Len(best_matches) = 2
    /\ ExtEqual(best_matches[1], best_matches[2])

\* Two different maximal extensions became the same extension by trimming,
\* which is returned once.
C12_WitnessAfterTrimming ==
    /\ pc = "partial"
    /\ Len(result) = 1
    /\ Len(trim_log) = 2
    /\ ~ExtEqual(trim_log[1].before, trim_log[2].before)
    /\ ExtEqual(trim_log[1].after, trim_log[2].after)
    /\ ~empty(trim_log[1].after)

\* The per-seed extensions were found in another order than the one returned.
C12_WitnessReordered ==
    /\ pc = "partial"
    /\ Len(result) = 2
    /\ Len(best_matches) = 2
    /\ sort_order(best_matches[2], best_matches[1])

\* The neighbours of the seed's node, on the haplotypes through it, whose base
\* next to the node matches the read: the ways the exact match inside the node
\* continues in the direction.
MatchingNeighbours(seed, backward) ==
    LET m == initial_match(seed)
        node == get_handle(seed)
    IN  IF m.internal_score > 0 THEN {}
        ELSE IF backward
        THEN IF m.read_interval[1] = 0 \/ m.offset > 0 THEN {}
             ELSE {first_node(c) : c \in
                      {x \in follow_paths(m.state, TRUE) :
                          get_sequence_view[first_node(x)][get_length[first_node(x)]]
                              = sequence[m.read_interval[1]]}}
        ELSE IF \/ m.read_interval[2] >= Len(sequence)
                \/ m.offset + length(m) < get_length[node] THEN {}
             ELSE {forward_node(c) : c \in
                      {x \in follow_paths(m.state, FALSE) :
                          get_sequence_view[forward_node(x)][1]
                              = sequence[m.read_interval[2] + 1]}}

\* The seeds the extension may have grown from.
SeedsOf(e) == {sd \in SeedsFor(sequence) : contains(e, sd)}

\* C13: when the exact match of a seed's node continues to two or more
\* haplotype-consistent neighbours in some direction, the extension returned
\* for that seed is that single node: its read interval is what matched
\* inside the node and it holds no mismatch.
C13_StopsAtBranch ==
    Returned =>
        \A i \in Indexes(best_matches) : \A sd \in SeedsFor(sequence) :
            /\ SeedsOf(best_matches[i]) = {sd}
            /\ \E backward \in BOOLEAN : Cardinality(MatchingNeighbours(sd, backward)) >= 2
            => /\ best_matches[i].path = <<get_handle(sd)>>
               /\ best_matches[i].read_interval = initial_match(sd).read_interval
               /\ best_matches[i].internal_score = 0

\* What extend() does instead: the extension for such a seed goes on into one
\* of the matching neighbours in every direction that has one.
C13_FollowsBranch ==
    Returned =>
        \A i \in Indexes(best_matches) : \A sd \in SeedsFor(sequence) :
            SeedsOf(best_matches[i]) = {sd} =>
                /\ MatchingNeighbours(sd, FALSE) # {} =>
                       \E k \in 1 .. Len(best_matches[i].path) - 1 :
                           /\ best_matches[i].path[k] = get_handle(sd)
                           /\ best_matches[i].path[k + 1] \in MatchingNeighbours(sd, FALSE)
                /\ MatchingNeighbours(sd, TRUE) # {} =>
                       \E k \in 2 .. Len(best_matches[i].path) :
                           /\ best_matches[i].path[k] = get_handle(sd)
                           /\ best_matches[i].path[k - 1] \in MatchingNeighbours(sd, TRUE)

(***************************************************************************)
(* Properties of the conversions of a gapless extension.                   *)
(***************************************************************************)
RECURSIVE SumOf(_)
SumOf(numbers) == IF numbers = <<>> THEN 0 ELSE Head(numbers) + SumOf(Tail(numbers))

\* The edits of the mappings of a Path, one after the other.
RECURSIVE PathEdits(_)
PathEdits(p) == IF p = <<>> THEN <<>> ELSE Head(p).edits \o PathEdits(Tail(p))

FromLengths(edits) == SumOf([k \in 1 .. Len(edits) |-> edits[k].from_length])
ToLengths(edits) == SumOf([k \in 1 .. Len(edits) |-> edits[k].to_length])

\* The read offset edit k of the edits starts at, in an extension.
EditStart(e, edits, k) == e.read_interval[1] + ToLengths(SubSeq(edits, 1, k - 1))

\* The Path is the extension: a mapping per node, in path order, and edits
\* that are runs of matches and substitutions at the mismatch positions.
IsPathOf(p, e, seq) ==
    LET edits == PathEdits(p)
        substitutions == {k \in 1 .. Len(edits) : edits[k].sequence # <<>>}
    IN  /\ Len(p) = Len(e.path)
        /\ \A k \in 1 .. Len(p) :
              /\ p[k].rank = k
              /\ p[k].node_id = (IF e.path[k] < 0 THEN -e.path[k] ELSE e.path[k])
              /\ p[k].is_reverse = (e.path[k] < 0)
              /\ p[k].offset = (IF k = 1 THEN e.offset ELSE 0)
              /\ p[k].edits # <<>>
              /\ p[k].offset + FromLengths(p[k].edits) <= get_length[e.path[k]]
              /\ k < Len(p) =>
                    p[k].offset + FromLengths(p[k].edits) = get_length[e.path[k]]
        /\ \A k \in 1 .. Len(edits) :
              /\ edits[k].from_length = edits[k].to_length
              /\ edits[k].to_length >= 1
              /\ edits[k].sequence # <<>> =>
                    /\ edits[k].to_length = 1
                    /\ edits[k].sequence = <<seq[EditStart(e, edits, k) + 1]>>
                    /\ EditStart(e, edits, k) \in MismatchSet(e)
              /\ edits[k].sequence = <<>> =>
                    \A r \in EditStart(e, edits, k) ..
                             EditStart(e, edits, k) + edits[k].to_length - 1 :
                        r \notin MismatchSet(e)
        /\ Cardinality(substitutions) = Len(e.mismatch_positions)
        /\ ToLengths(edits) = length(e)

\* C14: to_path() of a returned extension has one mapping per path node with
\* rank i + 1, at the extension's offset for the first node and 0 after it;
\* its edits are match runs and one single-base substitution per mismatch
\* carrying the read base, no edit crosses a node boundary, and the
\* to_lengths sum to the length of the read interval.
C14_ToPath ==
    Returned => \A i \in Indexes(result) : IsPathOf(to_path(result[i], sequence), result[i], sequence)

\* A returned extension over several nodes, at a node offset, with a mismatch
\* that is not in its first node.
C14_Witness ==
    /\ Returned
    /\ \E i \in Indexes(result) :
          /\ Len(result[i].path) >= 2
          /\ result[i].offset > 0
          /\ \E k \in 2 .. Len(result[i].path) :
                \E j \in Indexes(to_path(result[i], sequence)[k].edits) :
                    to_path(result[i], sequence)[k].edits[j].sequence # <<>>

\* The alignment made from a returned extension copies its path, offsets,
\* length and score.
CopiesExtension(alignment, e) ==
    /\ alignment.path = e.path
    /\ alignment.node_offset = e.offset
    /\ alignment.seq_offset = e.read_interval[1]
    /\ alignment.length = length(e)
    /\ alignment.score = e.score

\* C15: the WFAAlignment made from a returned extension copies path,
\* node_offset, seq_offset, length and score; its edits are matches and
\* mismatches that hold one mismatch base per mismatch position, and their
\* lengths sum to length, whatever the number and adjacency of the mismatches.
C15_FromExtension ==
    Returned => \A i \in Indexes(result) :
        LET alignment == WFAAlignment(result[i])
        IN  /\ CopiesExtension(alignment, result[i])
            /\ \A k \in Indexes(alignment.edits) :
                  alignment.edits[k][1] \in {"match", "mismatch"}
            /\ EditBases(alignment.edits, {"mismatch"}) = mismatches(result[i])
            /\ EditBases(alignment.edits, {"match", "mismatch"}) = alignment.length

\* What the constructor does: the copied fields and the mismatch bases are
\* right, and the match that follows a mismatch starts on the mismatch, so the
\* edits hold one base more than length for every mismatch edit.
C15_EditsOverrun ==
    Returned => \A i \in Indexes(result) :
        LET alignment == WFAAlignment(result[i])
        IN  /\ CopiesExtension(alignment, result[i])
            /\ EditBases(alignment.edits, {"mismatch"}) = mismatches(result[i])
            /\ EditBases(alignment.edits, {"match", "mismatch"})
                 = alignment.length + mismatches(result[i])

\* The constructor's case of the claim with no mismatch: one match edit.
C15_ExactCovered ==
    Returned => \A i \in Indexes(result) :
        exact(result[i]) =>
            WFAAlignment(result[i]).edits = <<<<"match", length(result[i])>>>>

(***************************************************************************)
(* Properties of the ways out of WFAExtender::connect().                   *)
(***************************************************************************)
\* connect() left its loop without a candidate within the score bound (a
\* candidate within the bound ends the loop at a score that is at most the
\* bound).
Unreached == loop_score > tree.score_bound

\* The first base of the sequence is the base at the start position: a match
\* of one base at least, of positive alignment score, starts every alignment.
FirstBaseMatches ==
    /\ sequence # <<>>
    /\ connect_from.offset < get_length[pos_handle(connect_from)]
    /\ get_sequence_view[pos_handle(connect_from)][connect_from.offset + 1] = sequence[1]

\* C16, the ways out that give nothing: without a candidate within score_bound
\* and with an end position, and whenever the candidate's seq_offset is 0, the
\* alignment returned is empty; an alignment returned with a candidate within
\* the bound has a penalty of at most score_bound.
C16_EmptyWithoutCandidate ==
    connect_pc = "done" /\ tree # <<>> =>
        /\ Unreached /\ ~no_pos(connect_to) => alignment_empty(connect_result)
        /\ tree.candidate_point.seq_offset = 0 => alignment_empty(connect_result)
        /\ ~Unreached /\ ~alignment_empty(connect_result) =>
              tree.candidate_point.score <= tree.score_bound

UnsetPointer == call.graph = "nullptr" \/ call.aligner = "nullptr"

\* extend() is entered without a graph, an aligner, a seed or a read.
InvalidExtendCall ==
    pc = "start" /\ (UnsetPointer \/ cluster = {} \/ sequence = <<>>)

\* connect() is entered without a graph, an aligner or a sequence, or from a
\* node on no haplotype.
InvalidConnectCall ==
    /\ connect_pc = "start"
    /\ \/ UnsetPointer
       \/ sequence = <<>>
       \/ get_bd_state(pos_handle(connect_from)) = {}

\* C17: a call with invalid input returns an empty result and never aborts.
\* extend() without graph, aligner, seeds or read returns the empty vector and
\* leaves the cache pointer as it was; connect() without graph, aligner or
\* sequence, or with an empty root state, returns an empty alignment;
\* suffix() hands its input to connect() as it is; prefix() returns an empty
\* alignment without a graph, else hands connect() the position on the other
\* strand (of the same node, so with an empty root state when the node is on
\* no haplotype) and a sequence of the same length, and returns an empty
\* alignment when connect() did.
C17_InvalidInputEmpty ==
    [][ /\ pc' # "abort"
        /\ connect_pc' # "abort"
        /\ InvalidExtendCall =>
              /\ pc' = "invalid"
              /\ result' = <<>>
              /\ call' = call
        /\ InvalidConnectCall =>
              /\ connect_pc' = "done"
              /\ alignment_empty(connect_result')
        /\ connect_pc = "suffix" =>
              /\ connect_pc' = "start"
              /\ UNCHANGED <<sequence, connect_from, call>>
        /\ connect_pc = "prefix" =>
              IF call.graph = "nullptr"
              THEN connect_pc' = "returned" /\ alignment_empty(connect_result')
              ELSE /\ connect_pc' = "start"
                   /\ call' = call
                   /\ Len(sequence') = Len(sequence)
                   /\ connect_from'.id = connect_to.id
        /\ connect_pc = "done" /\ call.entry = "prefix"
              /\ alignment_empty(connect_result) =>
                  connect_pc' = "returned" /\ alignment_empty(connect_result')
      ]_vars

\* extend() returned at once for an unset aligner alone, a cache not provided.
C17_Witness ==
    /\ pc = "invalid"
    /\ call = [entry |-> "extend", graph |-> "set", aligner |-> "nullptr",
               cache |-> "nullptr"]
    /\ cluster # {}
    /\ sequence # <<>>
    /\ result = <<>>

\* prefix() returned an empty alignment for a node on no haplotype.
C17_WitnessPrefix ==
    /\ connect_pc = "returned"
    /\ call.entry = "prefix"
    /\ ~UnsetPointer
    /\ sequence # <<>>
    /\ get_bd_state(pos_handle(connect_from)) = {}
    /\ alignment_empty(connect_result)

\* suffix() returned an empty alignment for an empty sequence.
C17_WitnessSuffix ==
    /\ connect_pc = "done"
    /\ call.entry = "suffix"
    /\ ~UnsetPointer
    /\ sequence = <<>>
    /\ alignment_empty(connect_result)

(***************************************************************************)
(* Properties of the path-slice helper.                                    *)
(***************************************************************************)
\* The arguments of the call in_place_subvector(mismatch_positions, head,
\* tail) that trim_mismatches() made to get from before to after.
MismatchSlice(before, after) ==
    LET head == count_while_below(before.mismatch_positions, 0, after.read_interval[1])
    IN  [head |-> head,
         tail |-> count_while_below(before.mismatch_positions, head, after.read_interval[2]),
         size |-> Len(before.mismatch_positions)]

\* The extensions extend() trimmed to a shorter interval that is not empty:
\* the ones whose mismatches went through in_place_subvector().
Sliced == {i \in Indexes(trim_log) :
              /\ trim_log[i].after # trim_log[i].before
              /\ ~empty(trim_log[i].after)}

\* C18, for the path-slice helper: in_place_subvector() called with
\* head >= tail or tail beyond the size aborts and returns no vector, so every
\* extension that came back from trim_mismatches() had its mismatches sliced
\* with head < tail <= size.
C18_SliceFaultsAbort ==
    pc = "partial" =>
        \A i \in Sliced :
            LET slice == MismatchSlice(trim_log[i].before, trim_log[i].after)
            IN  slice.head < slice.tail /\ slice.tail <= slice.size

\* What in_place_subvector() does instead: called with head >= tail it
\* returns the cleared vector, and extend() goes on with it.
C18_SliceCleared ==
    pc = "partial" =>
        \A i \in Sliced :
            LET slice == MismatchSlice(trim_log[i].before, trim_log[i].after)
            IN  /\ slice.tail <= slice.size
                /\ slice.head >= slice.tail => trim_log[i].after.mismatch_positions = <<>>

(***************************************************************************)
(* Properties of the extension steps.                                      *)
(***************************************************************************)
\* In a step of the queue: the extension that was popped, and the children
\* that were pushed (the extensions over one node more).
Popped == extensions \ extensions'
Pushed(curr) == {next \in extensions' \ extensions : Len(next.path) > Len(curr.path)}

\* The step extended curr to the right, or to the left.
RightStep(curr) == ~curr.right_maximal
LeftStep(curr) == curr.right_maximal /\ ~curr.left_maximal

\* The child stopped inside its node, before the end of the read: at a
\* mismatch it was not allowed.
StoppedAtLimit(curr, next) ==
    \/ RightStep(curr) /\ next.right_maximal /\ ~next.right_full
    \/ LeftStep(curr) /\ next.left_maximal /\ ~next.left_full

\* C19: in every extension step, with mismatch_limit = max(max_mismatches + 1,
\* max_mismatches / 2 + old_score + 1) of the popped extension, every child
\* pushed has internal_score < mismatch_limit, so at most max(max_mismatches,
\* max_mismatches / 2 + old_score); a child stops inside a node only at the
\* mismatch that would reach the limit, so after spending at least
\* max_mismatches / 2 mismatches beyond old_score.
C19_MismatchLimit ==
    [][ pc = "queue" /\ pc' = "queue" =>
          \A curr \in Popped : \A next \in Pushed(curr) :
              LET mismatch_limit ==
                      IF max_mismatches + 1 > (max_mismatches \div 2) + curr.old_score + 1
                      THEN max_mismatches + 1
                      ELSE (max_mismatches \div 2) + curr.old_score + 1
              IN  /\ next.internal_score < mismatch_limit
                  /\ next.internal_score >= curr.internal_score
                  /\ StoppedAtLimit(curr, next) =>
                        /\ next.internal_score = mismatch_limit - 1
                        /\ next.internal_score - curr.old_score >= max_mismatches \div 2
      ]_vars

\* A child in the queue with more mismatches than max_mismatches: the half
\* budget beyond old_score let it through.
C19_Witness ==
    /\ pc = "queue"
    /\ \E next \in extensions :
          /\ Len(next.path) >= 2
          /\ next.internal_score > max_mismatches
          /\ max_mismatches >= 2

\* A child in the queue that stopped inside its node at the limit with
\* mismatches spent in its flank.
C19_WitnessStopped ==
    /\ pc = "queue"
    /\ \E next \in extensions :
          /\ Len(next.path) >= 2
          /\ next.right_maximal /\ ~next.right_full
          /\ next.internal_score > next.old_score - 1
          /\ next.internal_score >= 1
          /\ max_mismatches >= 1

\* The haplotype occurrences of an extension that go on to another node, and
\* the nodes they go on to.
Continuing(curr) == {o \in curr.state : o[3] < Len(Haps[o[1]])}
Successors(curr) == {Haps[o[1]][o[3] + 1] : o \in Continuing(curr)}

\* C20: when the popped extension is not right-maximal, every successor node
\* on its haplotypes that matches at least one base (its first base is the
\* next read base, or a mismatch the limit allows) gets a child over the
\* occurrences that go on to it; the child is right_full exactly when it
\* reached the read end and right-maximal, with old_score := internal_score,
\* exactly when it did or stopped inside the node.  The popped extension is
\* pushed back right-maximal with old_score := internal_score exactly when
\* the children carry fewer haplotype occurrences than its own state, and is
\* dropped otherwise.
C20_RightExtension ==
    [][ pc = "queue" /\ pc' = "queue" =>
          \A curr \in Popped : RightStep(curr) =>
              LET mismatch_limit ==
                      IF max_mismatches + 1 > (max_mismatches \div 2) + curr.old_score + 1
                      THEN max_mismatches + 1
                      ELSE (max_mismatches \div 2) + curr.old_score + 1
                  Matches(h) ==
                      \/ get_sequence_view[h][1] = sequence[curr.read_interval[2] + 1]
                      \/ curr.internal_score + 1 < mismatch_limit
                  Carried(h) == {o \in Continuing(curr) : Haps[o[1]][o[3] + 1] = h}
                  going_on == {o \in Continuing(curr) : Matches(Haps[o[1]][o[3] + 1])}
                  requeued == [curr EXCEPT !.right_maximal = TRUE,
                                         !.old_score = curr.internal_score]
              IN  /\ \A h \in Successors(curr) :
                        Matches(h) <=>
                            \E next \in extensions' : next.path = Append(curr.path, h)
                  /\ \A next \in Pushed(curr) :
                        LET h == next.path[Len(next.path)]
                            used == next.read_interval[2] - curr.read_interval[2]
                            at_end == next.read_interval[2] >= Len(sequence)
                        IN  /\ next.path = Append(curr.path, h)
                            /\ h \in Successors(curr)
                            /\ used >= 1
                            /\ next.state = {<<o[1], o[2], o[3] + 1>> : o \in Carried(h)}
                            /\ next.right_full = at_end
                            /\ next.right_maximal = (at_end \/ used < get_length[h])
                            /\ next.old_score = IF next.right_maximal
                                                THEN next.internal_score
                                                ELSE curr.old_score
                  /\ requeued \in extensions' <=>
                        Cardinality(going_on) < Cardinality(curr.state)
                  /\ curr \notin extensions'
      ]_vars

\* The queue after a popped extension was pushed back right-maximal next to a
\* child of it: some of its haplotypes went on, some did not.
C20_Witness ==
    /\ pc = "queue"
    /\ \E prev \in extensions : \E next \in extensions :
          /\ Len(next.path) = Len(prev.path) + 1
          /\ SubSeq(next.path, 1, Len(prev.path)) = prev.path
          /\ next.read_interval[1] = prev.read_interval[1]
          /\ next.read_interval[2] > prev.read_interval[2]
          /\ prev.right_maximal /\ ~prev.right_full
          /\ prev.old_score = prev.internal_score
          /\ Cardinality(next.state) < Cardinality(prev.state)

\* The queue with a child that is neither right-maximal nor at the read end:
\* it used up its node.
C20_WitnessThrough ==
    /\ pc = "queue"
    /\ \E next \in extensions :
          /\ Len(next.path) >= 2
          /\ ~next.right_maximal

\* The haplotype occurrences of the popped extension that no child pushed in
\* this step extends to the left.
Unextended(curr) ==
    {o \in curr.state :
        ~\E next \in Pushed(curr) : <<o[1], o[2] - 1, o[3]>> \in next.state}

\* The predecessor nodes on the haplotypes of an extension.
Predecessors(curr) == {Haps[o[1]][o[2] - 1] : o \in {x \in curr.state : x[2] > 1}}

\* The popped extension as a left-maximal candidate.
LeftCandidate(curr) == [curr EXCEPT !.left_maximal = TRUE]

\* C21 as stated: when the popped extension is right-maximal and not
\* left-maximal and some of its haplotypes could not be extended to the left,
\* it is kept as a left-maximal candidate: it is back in the queue, or the
\* seed's best match is afterwards no worse than it.
C21_KeptWhenSomeUnextended ==
    [][ pc = "queue" /\ pc' = "queue" =>
          \A curr \in Popped : LeftStep(curr) /\ Unextended(curr) # {} =>
              \/ LeftCandidate(curr) \in extensions'
              \/ ~ExtLess(best_match', LeftCandidate(curr))
      ]_vars

\* C21, amended: the popped extension is kept as a left-maximal candidate and
\* compared against the seed's best match exactly when no predecessor node on
\* its haplotypes matches at least one base (the node's last base is the read
\* base before the interval, or a mismatch the limit allows).  When some
\* predecessor does, each such node gets a child, the popped extension is
\* dropped and the best match stays as it was, whether or not every
\* haplotype was extended.
C21_KeptWhenNoneExtended ==
    [][ pc = "queue" /\ pc' = "queue" =>
          \A curr \in Popped : LeftStep(curr) =>
              LET mismatch_limit ==
                      IF max_mismatches + 1 > (max_mismatches \div 2) + curr.old_score + 1
                      THEN max_mismatches + 1
                      ELSE (max_mismatches \div 2) + curr.old_score + 1
                  Matches(h) ==
                      \/ get_sequence_view[h][get_length[h]] = sequence[curr.read_interval[1]]
                      \/ curr.internal_score + 1 < mismatch_limit
                  found_extension == \E h \in Predecessors(curr) : Matches(h)
              IN  /\ curr.read_interval[1] >= 1
                  /\ \A h \in Predecessors(curr) :
                        Matches(h) <=>
                            \E next \in extensions' : next.path = <<h>> \o curr.path
                  /\ \A next \in Pushed(curr) :
                        /\ next.path = <<next.path[1]>> \o curr.path
                        /\ next.path[1] \in Predecessors(curr)
                        /\ next.read_interval[1] < curr.read_interval[1]
                        /\ next.left_full = (next.read_interval[1] = 0)
                        /\ next.left_maximal = (next.read_interval[1] = 0 \/ next.offset > 0)
                        /\ next.old_score = curr.old_score
                  /\ curr \notin extensions'
                  /\ LeftCandidate(curr) \notin extensions'
                  /\ IF found_extension
                     THEN best_match' = best_match
                     ELSE /\ extensions' = extensions \ {curr}
                          /\ best_match' = IF ExtLess(best_match, LeftCandidate(curr))
                                           THEN LeftCandidate(curr)
                                           ELSE best_match
      ]_vars

\* The queue after a left step that pushed a child and dropped the popped
\* extension although one of its haplotypes was not extended.  No seed lies
\* on the child's first node on its diagonal, so that node was reached by a
\* left step; without a mismatch budget no mismatch is allowed, and a
\* haplotype through the rest of the path comes from a node whose last base
\* is not the read base; the rest of the path is neither in the queue nor
\* the best match.
C21_Witness ==
    /\ pc = "queue"
    /\ max_mismatches = 0
    /\ \E next \in extensions :
          /\ Len(next.path) >= 2
          /\ next.right_maximal
          /\ \A seed \in Seeds :
                ~(/\ get_handle(seed) = next.path[1]
                  /\ get_read_offset(seed) - get_node_offset(seed)
                       = next.read_interval[1] - next.offset)
          /\ LET rest == SubSeq(next.path, 2, Len(next.path))
                 before == next.read_interval[1] + get_length[next.path[1]] - next.offset
             IN  /\ \E o \in bd_find(rest) :
                       /\ o[2] > 1
                       /\ get_sequence_view[Haps[o[1]][o[2] - 1]]
                                           [get_length[Haps[o[1]][o[2] - 1]]]
                            # sequence[before]
                 /\ best_match.path # rest
                 /\ \A e \in extensions : e.path # rest

\* An extension that no haplotype extends to the left became the seed's best
\* match.
C21_WitnessKept ==
    /\ pc = "queue"
    /\ best_match.left_maximal /\ ~best_match.left_full
    /\ best_match.offset = 0
    /\ best_match.read_interval[1] > 0

\* How many of the flags right_maximal, left_maximal an extension has set.
MaximalFlags(e) ==
    (IF e.right_maximal THEN 1 ELSE 0) + (IF e.left_maximal THEN 1 ELSE 0)

\* C22: the queue of a seed drains.  In every step of the queue each pushed
\* extension covers a longer read interval than the popped one or has more of
\* the flags right_maximal, left_maximal set; an extension that is maximal on
\* both sides pushes nothing; every read interval lies within the read; and
\* from every state of the loop the queue becomes empty.
C22_QueueDrains ==
    /\ [][ pc = "queue" /\ pc' = "queue" =>
            /\ Popped # {}
            /\ \A curr \in Popped :
                  /\ \A next \in extensions' \ extensions :
                        \/ interval_length(next.read_interval)
                             > interval_length(curr.read_interval)
                        \/ MaximalFlags(next) > MaximalFlags(curr)
                  /\ MaximalFlags(curr) = 2 => extensions' = extensions \ {curr}
            /\ \A e \in extensions' :
                  /\ e.read_interval[1] <= e.read_interval[2]
                  /\ e.read_interval[2] <= Len(sequence)
        ]_vars
    /\ (pc = "queue") ~> (pc = "queue" /\ extensions = {})

\* The queue of a seed drained after an extension over three nodes or more
\* became the best match: it took several pops to get there.
C22_Witness ==
    /\ pc = "queue"
    /\ extensions = {}
    /\ Len(best_match.path) >= 3
    /\ best_match.right_maximal /\ best_match.left_maximal

\* Every extension the loop will hold when it starts from the extensions
\* todo: these, and whatever popping them pushes.
RECURSIVE Pending(_, _)
Pending(todo, done) ==
    IF todo = {} THEN done
    ELSE LET e == CHOOSE e \in todo : TRUE
         IN  Pending((todo \cup pop_result(e).pushed) \ (done \cup {e}), done \cup {e})

\* The extensions that will reach the comparison with the best match.
Candidates(queue) == UNION {pop_result(e).compared : e \in Pending(queue, {})}

\* The score the best match will have when the queue is empty.
RECURSIVE MaxScore(_, _)
MaxScore(candidates, score) ==
    IF candidates = {} THEN score
    ELSE LET c == CHOOSE c \in candidates : TRUE
         IN  MaxScore(candidates \ {c}, IF c.score > score THEN c.score ELSE score)

FinalScore(queue, best) == MaxScore(Candidates(queue), best.score)

\* C23: the pop order does not matter.  Whichever pending extension an
\* iteration pops, it pushes and compares what that extension alone decides,
\* so the extensions still to be compared are the ones that were to be
\* compared before less the one compared now, and the score the best match
\* will end with stays what it was when the seed's loop began; and the queue
\* becomes empty, so every pending extension is popped.
C23_OrderIndependent ==
    /\ [][ pc = "queue" /\ pc' = "queue" =>
            /\ Popped # {}
            /\ \A curr \in Popped :
                  /\ extensions' = (extensions \ {curr}) \cup pop_result(curr).pushed
                  /\ \A queue \in {extensions'} :
                        Candidates(extensions)
                            = Candidates(queue) \cup pop_result(curr).compared
                  /\ \A c \in pop_result(curr).compared :
                        /\ c.right_maximal /\ c.left_maximal
                        /\ best_match'.score = IF c.score > best_match.score
                                               THEN c.score ELSE best_match.score
                  /\ pop_result(curr).compared = {} => best_match' = best_match
            /\ \A queue \in {extensions'}, best \in {best_match'} :
                  FinalScore(queue, best) = FinalScore(extensions, best_match)
        ]_vars
    /\ (pc = "queue") ~> (pc = "queue" /\ extensions = {})

\* A lower-scoring extension was compared while a both-side-maximal one that
\* scores higher is still pending, next to another extension.
C23_Witness ==
    /\ pc = "queue"
    /\ ~empty(best_match)
    /\ Cardinality(extensions) >= 2
    /\ \E e \in extensions :
          /\ e.right_maximal /\ e.left_maximal
          /\ e.score > best_match.score
          /\ \E other \in extensions : other.score > e.score

\* The diagonal (read offset - node offset) of the extension at the idx-th
\* node of its path.
RECURSIVE DiagonalAt(_, _)
DiagonalAt(e, idx) ==
    IF idx = 1 THEN e.read_interval[1] - e.offset
    ELSE DiagonalAt(e, idx - 1) + get_length[e.path[idx - 1]]

\* The best full-length alignment found so far is exact and holds the seed's
\* node on the seed's diagonal.
Covered(seed) ==
    /\ best_alignment < Len(result)
    /\ LET best == result[best_alignment + 1]
       IN  /\ best.internal_score = 0
           /\ \E idx \in 1 .. Len(best.path) :
                 /\ best.path[idx] = seed[1]
                 /\ DiagonalAt(best, idx) = seed[2]

\* The seeds still to come, the one in the queue loop and the extensions
\* found: what the result can still grow to.
ResultBudget == Len(result) + Cardinality(cluster) + (IF pc = "queue" THEN 1 ELSE 0)

\* C24: in the seed loop, a seed is taken from the cluster without a queue
\* loop and without a change to the result exactly when the best full-length
\* alignment found so far is exact and contains it; a seed adds at most one
\* extension to the result; and whenever the result holds a full-length
\* extension, best_alignment indexes one with the least internal_score of
\* them, and indexes nothing otherwise.
C24_SeedLoop ==
    [][ /\ pc = "seeds" /\ cluster' # cluster =>
              \E seed \in cluster :
                  /\ cluster' = cluster \ {seed}
                  /\ result' = result /\ best_alignment' = best_alignment
                  /\ IF Covered(seed)
                     THEN pc' = "seeds" /\ extensions' = extensions
                                       /\ best_match' = best_match
                     ELSE pc' = "queue" /\ extensions' # {}
        /\ pc = "start" => result' = <<>> /\ cluster' = cluster
        /\ pc \in {"seeds", "queue"} /\ pc' \in {"seeds", "queue"} =>
              /\ ResultBudget' <= ResultBudget
              /\ Len(result') <= Len(result) + 1
              /\ LET FullLength == {i \in 1 .. Len(result') : full(result'[i])}
                 IN  IF FullLength = {} THEN best_alignment' >= Len(result')
                     ELSE /\ best_alignment' + 1 \in FullLength
                          /\ \A i \in FullLength :
                                result'[best_alignment' + 1].internal_score
                                    <= result'[i].internal_score
      ]_vars

\* The seed loop with an extension found and nothing left in the cluster but
\* seeds the exact full-length alignment contains: they will be skipped.
C24_Witness ==
    /\ pc = "seeds"
    /\ Len(result) >= 1
    /\ cluster # {}
    /\ \A seed \in cluster : Covered(seed)

\* The seed loop with an inexact full-length alignment found and a seed left
\* that lies on it: the seed will be extended.
C24_WitnessInexact ==
    /\ pc = "seeds"
    /\ best_alignment < Len(result)
    /\ result[best_alignment + 1].internal_score > 0
    /\ \E seed \in cluster : \E idx \in 1 .. Len(result[best_alignment + 1].path) :
          /\ result[best_alignment + 1].path[idx] = seed[1]
          /\ DiagonalAt(result[best_alignment + 1], idx) = seed[2]

(***************************************************************************)
(* Properties of the WFA loop.                                             *)
(***************************************************************************)
\* The points the nodes of a tree hold, of every type.
WavefrontPoints(t) ==
    UNION {{t.nodes[n].wavefronts[type][i] : i \in 1 .. Len(t.nodes[n].wavefronts[type])} :
              n \in 1 .. Len(t.nodes), type \in 1 .. 3}

\* The scores next(score) looks up: after a mismatch, a new gap, a longer gap.
ScoresRead(t, score) ==
    {score - t.mismatch, score - t.gap_open - t.gap_extend, score - t.gap_extend}

Listed(children, node) == Cardinality({i \in 1 .. Len(children) : children[i] = node})

\* Node 0 is the root and its own parent; every other node comes after its
\* parent, which lists it once, and no other node lists it.
TreeShaped(t) ==
    /\ size(t) >= 1
    /\ parent(t, 0) = 0
    /\ \A node \in 0 .. size(t) - 1 :
           /\ Listed(t.nodes[1].children, 0) = 0
           /\ \A child \in 1 .. size(t) - 1 :
                  Listed(t.nodes[node + 1].children, child) =
                      IF parent(t, child) = node THEN 1 ELSE 0
           /\ \A i \in 1 .. Len(t.nodes[node + 1].children) :
                  t.nodes[node + 1].children[i] \in 1 .. size(t) - 1
    /\ \A child \in 1 .. size(t) - 1 : parent(t, child) < child

\* The children are the successors of the node's search state; a dead end is
\* a node without successors and without children.
ChildrenAreSuccessors(t) ==
    \A node \in 0 .. size(t) - 1 :
        LET successors == follow_paths(t.nodes[node + 1].state, FALSE)
            children == t.nodes[node + 1].children
        IN  /\ t.nodes[node + 1].dead_end => successors = {} /\ children = <<>>
            /\ children # <<>> =>
                   /\ {t.nodes[children[i] + 1].state : i \in 1 .. Len(children)} = successors
                   /\ Len(children) = Cardinality(successors)

\* propagate() on any node of the tree: nothing happens for a position that is
\* not at the end of the last node of its path; a position at the end expands
\* a node that was not expanded, which becomes a dead end exactly when it has
\* no successor, and leaves the children of an expanded node as they are.
PropagateExpands(t) ==
    \A node \in 0 .. size(t) - 1 :
        LET len == wfa_node_length(t.nodes[node + 1])
            at(offset, path) == propagate(t, [seq_offset |-> 1, node_offset |-> offset,
                                             path |-> path], 0, 0, MATCHES)
            at_end == at(len, <<node>>).tree
            successors == follow_paths(t.nodes[node + 1].state, FALSE)
        IN  /\ \A offset \in 0 .. len - 1 : at(offset, <<node>>).tree = t
            /\ at(len, <<node, parent(t, node)>>).tree = t
            /\ expanded(at_end.nodes[node + 1])
            /\ at_end.nodes[node + 1].dead_end <=>
                   (successors = {} /\ (~expanded(t.nodes[node + 1]) \/ t.nodes[node + 1].dead_end))
            /\ expanded(t.nodes[node + 1]) =>
                   /\ size(at_end) = size(t)
                   /\ at_end.nodes[node + 1].children = t.nodes[node + 1].children

\* The nodes of the tree before are there after, with the same parent and
\* search state, and with the same children and dead_end once expanded.
TreeGrows(before, after) ==
    /\ size(after) >= size(before)
    /\ \A node \in 0 .. size(before) - 1 :
           /\ after.nodes[node + 1].state = before.nodes[node + 1].state
           /\ after.nodes[node + 1].parent = before.nodes[node + 1].parent
           /\ expanded(before.nodes[node + 1]) =>
                  /\ after.nodes[node + 1].children = before.nodes[node + 1].children
                  /\ after.nodes[node + 1].dead_end = before.nodes[node + 1].dead_end
    /\ size(after) > size(before) =>
           \E node \in 0 .. size(before) - 1 :
               /\ ~expanded(before.nodes[node + 1])
               /\ after.nodes[node + 1].children # <<>>

\* C28: after any sequence of update, propagate, extend and next steps, node 0
\* is the root and its own parent, every other node has a smaller parent
\* that lists it exactly once, children are computed at most once and only by
\* a position propagated at the end of the node, dead_end is set exactly for
\* expanded nodes without a successor, and nodes are never removed,
\* re-parented or given another search state.
C28_TreeInvariants ==
    /\ [](TreeShaped(tree) /\ ChildrenAreSuccessors(tree) /\ PropagateExpands(tree))
    /\ [][\A before \in {tree}, after \in {tree'} : TreeGrows(before, after)]_vars

\* After extend and next steps: a tree with a branching node, a dead end and a
\* node two steps from the root.
C28_Witness ==
    /\ connect_pc = "tree"
    /\ loop_score >= 1
    /\ size(tree) >= 4
    /\ \E node \in 0 .. size(tree) - 1 : tree.nodes[node + 1].dead_end
    /\ \E node \in 0 .. size(tree) - 1 : Len(tree.nodes[node + 1].children) >= 2
    /\ \E node \in 1 .. size(tree) - 1 : parent(tree, node) # 0

\* The wavefront is sorted by (score, diagonal) with one point per key.
SortedWavefront(points) ==
    \A i \in 1 .. Len(points), j \in 1 .. Len(points) :
        i < j => PointLess(points[i], points[j])

\* The points the wavefront holds for the key.
Entries(points, score, diagonal) ==
    {points[i] : i \in {k \in 1 .. Len(points) :
                            points[k].score = score /\ points[k].diagonal = diagonal}}

\* The keys tried on the trees.
TreeScores == -1 .. MaxTreeScore
TreeDiagonals == -1 .. 1

\* update() on the wavefront: the key holds the new point and every other key
\* holds what it held.
UpdateSetsOneKey(node, type) ==
    \A score \in 0 .. MaxTreeScore, diagonal \in TreeDiagonals :
        \A updated \in {node_update(node, type, score, diagonal, 1, 0)} :
            /\ Entries(updated.wavefronts[type + 1], score, diagonal) =
                   {[score |-> score, diagonal |-> diagonal, seq_offset |-> 1,
                     node_offset |-> 0]}
            /\ \A s \in 0 .. MaxTreeScore, d \in TreeDiagonals :
                   <<s, d>> # <<score, diagonal>> =>
                       Entries(updated.wavefronts[type + 1], s, d) =
                           Entries(node.wavefronts[type + 1], s, d)
            /\ Len(updated.wavefronts[type + 1]) =
                   Len(node.wavefronts[type + 1])
                       + (IF Entries(node.wavefronts[type + 1], score, diagonal) = {}
                          THEN 1 ELSE 0)
            /\ SortedWavefront(updated.wavefronts[type + 1])
            /\ \A other \in {MATCHES, INSERTIONS, DELETIONS} \ {type} :
                   updated.wavefronts[other + 1] = node.wavefronts[other + 1]
            /\ [updated EXCEPT !.wavefronts = node.wavefronts] = node

\* The nodes from the node up to the root.
RECURSIVE UpToRoot(_, _)
UpToRoot(t, node) ==
    IF is_root(node) THEN <<node>> ELSE <<node>> \o UpToRoot(t, parent(t, node))

\* The position find_pos() is to return: the point of the nearest node on
\* the way to the root with an entry for the key, with the nodes passed, the
\* node of the entry on top.
NearestEntry(t, type, node, score, diagonal) ==
    LET up == UpToRoot(t, node)
        holding == {k \in 1 .. Len(up) :
                       Entries(t.nodes[up[k] + 1].wavefronts[type + 1], score, diagonal) # {}}
    IN  IF score < 0 \/ holding = {} THEN EmptyPos
        ELSE LET nearest == CHOOSE k \in holding : \A other \in holding : k <= other
                 point == CHOOSE e \in Entries(t.nodes[up[nearest] + 1].wavefronts[type + 1],
                                               score, diagonal) : TRUE
             IN  [seq_offset |-> point.seq_offset, node_offset |-> point.node_offset,
                  path |-> [i \in 1 .. nearest |-> up[nearest + 1 - i]]]

NoPoints ==
    tree # <<>> =>
        \A node \in 0 .. size(tree) - 1 : tree.nodes[node + 1].wavefronts = <<<<>>, <<>>, <<>>>>
OneNode == tree # <<>> => size(tree) = 1

LeastOf(numbers) == CHOOSE n \in numbers : \A other \in numbers : n <= other
GreatestOf(numbers) == CHOOSE n \in numbers : \A other \in numbers : n >= other

\* The earlier scores get_diagonals(score) reads the ranges of.
RangesRead(t, score) ==
    {earlier \in {score - t.mismatch, score - t.gap_open - t.gap_extend,
                  score - t.gap_extend} : earlier > 0}

\* Every point of the tree is on a diagonal of the range of its score.
PointsInRange(t) ==
    \A node \in 0 .. size(t) - 1, type \in {MATCHES, INSERTIONS, DELETIONS} :
        \A i \in 1 .. Len(t.nodes[node + 1].wavefronts[type + 1]) :
            LET point == t.nodes[node + 1].wavefronts[type + 1][i]
            IN  /\ point.score + 1 <= Len(t.diagonals)
                /\ t.diagonals[point.score + 1][1] <= point.diagonal
                /\ point.diagonal <= t.diagonals[point.score + 1][2]

=============================================================================
